---- MODULE Spec2Model ----
(***************************************************************************)
(* A model of the CamtrawlAcquisition trigger scheduling and               *)
(* synchronisation engine (AcquisitionBase.py, CamtrawlAcquisition.py,     *)
(* CV2VideoCamera.py, metadata_db.py).                                     *)
(*                                                                         *)
(* The coordinator (AcquisitionBase) runs on one Qt event loop: every      *)
(* action below is one event handled by that loop (a timer firing, a       *)
(* queued signal of a camera worker or of a subsystem, a request of the    *)
(* server, a stop request).  A handler is an operator from the state `s'   *)
(* before it to the state after it, so that a handler that calls another   *)
(* one (TriggerTimeout -> TriggerCameras, CamTriggerComplete ->            *)
(* StopAcquisition -> AcqisitionTeardown) is their composition.            *)
(***************************************************************************)
EXTENDS Integers, Sequences, FiniteSets, TLC

\* The cameras that may be attached to the system.
Cams == {"camA", "camB"}

\* A session of the model issues trigger commands for image numbers up to this.
MaxImages == 3

\* Trigger commands one camera may have been sent and not yet answered.
MaxPending == 2

\* Calls of StopAcquisition in one run.
MaxStops == 2

\* Calls of StopAcquisition in a run that is followed through its teardown.
MaxExitStops == 1

\* The dividers of a camera are taken from 1 .. MaxDivider.
MaxDivider == 3

\* Trigger commands delivered to the camera worker.
MaxTicks == 6

\* The clock of the model runs from 0 to MaxClock seconds.
MaxClock == 6

\* Runs of the application on the same output directory.
MaxSessions == 2

\* State messages of the power and control board in one run.
MaxStateMsgs == 3

\* Datagrams of the sensors handled in one run.
MaxDatagrams == 2

\* Sub-exposures a camera in HDR mode takes for one trigger command.
MaxHdrExposures == 2

\* sensors/synchronous_timeout_secs of the default configuration
DefaultSyncTimeout == 5

\* acquisition/trigger_rate of the default configuration, in Hz
trigger_rate_default == 5

\* The trigger rates of the configurations that are followed, in Hz.
Rates == {1, 3, trigger_rate_default}

\* The times a cycle may take from TriggerCameras to its completion, in
\* microseconds.
ElapsedUs == {0, 500, 150000, 199500, 200000, 200500, 333000, 333500,
              999999, 1000000, 2500000}

\* controller/strobe_pre_fire of the default configuration
strobe_pre_fire == 150

\* exposure_us of the default camera configuration
exposure_us_default == 4000

\* The exposures a camera reports with triggerReady, in microseconds; zero
\* when it is not going to be triggered.
Exposures == {0, 2000, exposure_us_default}

\* acquisition/still_sync_data_divider of the default configuration
still_sync_data_divider == 1

\* acquisition/video_sync_data_divider of the default configuration
video_sync_data_divider == 15

\* acquisition/video_log_frames of the default configuration
video_log_frames == FALSE

\* The synchronous sensors that may be installed.
Sensors == {"ctd", "gps"}

\* The headers of the datagrams the sensors send.
Headers == {"$HDG", "$DPT"}

\* The milliseconds of a day: datetime.timedelta keeps days, seconds (of the
\* day) and microseconds apart.
DayMs == 86400000

\* The times between two datagrams, in milliseconds.
Elapsed == {400, 600, 1000, DayMs}

\* The value of a cache entry that does not exist.
NoReading == -1

\* AcquisitionBase.TEARDOWN_TRIES
TEARDOWN_TRIES == 12

\* AcquisitionBase.MAX_DB_ALTERNATES
MAX_DB_ALTERNATES == 100

\* acquisition/trigger_limit of the configuration when a limit is set
TriggerLimit == 2

VARIABLES
    \* ---- AcquisitionBase properties
    started,                    \* AcquisitionSetup has run
    cameras,                    \* self.cameras (the names)
    received,                   \* self.received: camera name -> bool
    isTriggering, isAcquiring, isExiting, shutdownOnExit,
    triggerTimer, timeoutTimer, shutdownTimer,      \* QTimer.isActive()
    n_images, this_images,
    acqisition_teardown_tries, serial_threads_finished, server_finished,
    \* ---- the single shot delay timers of the teardown
    delayTimer,                 \* timer of the latest AcqisitionTeardown: "off", "poll", "final"
    staleTimers,                \* timers of earlier AcqisitionTeardown runs still armed
    quit,                       \* QCoreApplication.quit() was called
    \* ---- camera workers and the signals in flight between the threads
    camAcquiring,               \* CV2VideoCamera.acquiring
    wedged,                     \* cameras whose thread never answers
    pending,                    \* image numbers of the trigger commands a camera has not answered
    stopPending,                \* stop commands accepted, acquisitionStopped not yet handled
    \* ---- subsystems
    server,                     \* CamtrawlServer: "none", "running", "stopping", "stopped"
    serial,                     \* SerialMonitor: "none", "monitoring", "stopping", "stopped"
    \* ---- configuration
    start_server, trigger_limit, shut_down_on_exit,
    startOk,                    \* cameras whose start_acquisition succeeds
    synchronous_timeout_secs,
    \* ---- images, sensor data and the metadata database
    use_db,
    dbFile,                     \* the database file that is open: "main", "alt", "none"
    imgDelivered,               \* camera -> imageData of its oldest command was handled
    saved_last_still, saved_last_frame, n_saved_stills, n_saved_frames,
    clock,                      \* datetime.datetime.now(), in seconds
    trig_time,
    syncdSensorData,            \* sensor -> time of the cached reading, or NoReading
    sync_trigger_messages,      \* rows << image number, time, sensor >> staged by TriggerCameras
    \* ---- what is on the disk: it outlives a run
    images,                     \* database file -> numbers in its images table
    sensor_data,                \* rows of the sensor_data table
    files,                      \* image numbers in the names of the image files
    dbState,                    \* "ok", "corrupt" (an alternate opens), "unusable"
    \* ---- history of the run (read by the properties only)
    lastIssued,                 \* image number of the last trigger command, 0: none
    timedOut,                   \* the watchdog re-issued image number lastIssued
    completed,                  \* runs of the completion logic since the last TriggerCameras
    stops,                      \* calls of StopAcquisition
    cacheAtTrigger,             \* syncdSensorData as the last TriggerCameras read it
    startNumber,                \* n_images as OpenDatabase set it
    maxIssued,                  \* the largest image number issued in an earlier run
    sessions,                   \* runs of the application so far
    found,                      \* the cameras the enumeration finds
    polls,                      \* firings of the latest teardown's delay timer
    still_sync_divider,         \* acquisition/still_sync_data_divider of the configuration
    video_sync_divider,         \* acquisition/video_sync_data_divider of the configuration
    installed_sensors,          \* the synchronous sensors that report
    use_controller,             \* controller/use_controller of the configuration
    always_trigger_at_start,    \* application/always_trigger_at_start of the configuration
    controllerThread,           \* the CamtrawlController thread: "none", "running", "stopping", "stopped"
    controllerStarting,         \* self.controllerStarting
    controllerCurrentState,     \* self.controllerCurrentState
    shutdownAcks,               \* calls of controller.sendShutdownAckSignal
    powerOff,                   \* the OS shutdown command was issued
    enableOutcome,              \* what became of the trigger timer ControllerStateChanged armed: "none", "armed", "ticked", "stopped"
    stateMsgs,                  \* state messages of the board handled in this run
    output_mode,                \* application/output_mode of the configuration: "combined", "separate"
    first_alternate,            \* the first alternate database file that can be opened
    db_tries,                   \* alternate database files OpenDatabase tried to open
    hw_triggered_cameras,       \* cameras whose trigger_source is hardware
    readyToTrigger,             \* self.readyToTrigger: camera -> bool
    readyPending,               \* triggerReady signals in flight: TRUE when it answers the latest TriggerCameras
    hwPulsed,                   \* trigger pulses a camera has received and not yet answered
    readyNow,                   \* cameras whose triggerReady for the latest TriggerCameras was handled
    hwTriggers,                 \* calls of controller.trigger since the latest TriggerCameras
    paramRequest,               \* the parameter of the last SetParameterRequest handled, "none": none yet
    paramEmits,                 \* parameterChanged signals that request emitted
    paramValue,                 \* the value the last parameterChanged carried
    sensorConfig,               \* self.configuration['sensors']: synchronous, asynchronous, installed_sensors
    default_is_synchronous,     \* self.default_is_synchronous
    async_data,                 \* rows of the async_data table
    lastDatum,                  \* the last datagram SensorDataAvailable handled and what it did with it
    ctcTriggerChannel,          \* self.ctcTriggerChannel: the enable bits of the two trigger ports
    maxExposure,                \* self.maxExposure: the longest exposure reported since TriggerCameras
    HWTriggerHDR,               \* self.HWTriggerHDR: camera -> the is_HDR flag of its latest triggerReady
    controller_port,            \* self.controller_port: camera -> controller_trigger_port
    strobe_channel,             \* configuration['controller']['strobe_channel']
    lastTrigger,                \* the arguments of the latest call of controller.trigger since TriggerCameras
    readyReports,               \* the <<camera, exposure_us>> of the triggerReady signals handled since TriggerCameras
    readySincePulse,            \* cameras whose triggerReady was handled since the latest pulse or TriggerCameras
    hdrDone,                    \* camera -> HDR sub-exposures it has taken for its trigger command
    trigger_rate,               \* acquisition/trigger_rate of the configuration, in Hz
    elapsed_time_us,            \* the time since trig_time when the latest triggerComplete was handled, in microseconds
    next_int_time_ms,           \* next_int_time_ms of the latest run of the completion logic
    cam_ok,                     \* ConfigureCameras succeeded
    disk_ok,                    \* the free space of the data directory suffices
    readySignals,               \* calls of controller.sendReadySignal
    shutdownInterval,           \* ms of the latest shutdownTimer.start
    teardowns,                  \* runs of AcquisitionBase.AcqisitionTeardown
    db_is_open,                 \* metadata_db.is_open
    closedWrites,               \* write calls on the database after its close
    triggerSignal,              \* parity of the emissions of AcquisitionBase.trigger
    \* ---- one CV2VideoCamera worker
    acquiring, total_triggers, n_triggered,
    save_this_still, save_this_frame,
    save_image,                 \* self.save_image[0]
    image_number,               \* the trigger command that set up the exposure (its k)
    sw_trig_timer,              \* sw_trig_timer.isActive()
    trigger_divider, save_stills_divider, save_video_divider,
    save_stills, save_video,
    \* ---- history of the camera worker (read by the properties only)
    commands,                   \* trigger commands delivered to the worker
    nComplete,                  \* triggerComplete signals emitted
    lastComplete,               \* the last one: the command k it answers and its argument
    lastStill                   \* the command k of the last still saved, 0: none

coordVars == << started, cameras, received, isTriggering, isAcquiring, isExiting,
           shutdownOnExit, triggerTimer, timeoutTimer, shutdownTimer, n_images,
           this_images, acqisition_teardown_tries, serial_threads_finished,
           server_finished, delayTimer, staleTimers, quit, camAcquiring, wedged,
           pending, stopPending, server, serial, start_server,
           trigger_limit, shut_down_on_exit, lastIssued, timedOut, completed,
           stops, polls, startOk, synchronous_timeout_secs, use_db, dbFile,
           imgDelivered, saved_last_still, saved_last_frame, n_saved_stills,
           n_saved_frames, clock, trig_time, syncdSensorData,
           sync_trigger_messages, images, sensor_data, files, dbState,
           cacheAtTrigger, startNumber, maxIssued, sessions, found,
           triggerSignal,
           closedWrites,
           db_is_open,
           teardowns,
           shutdownInterval,
           readySignals,
           disk_ok,
           cam_ok,
           next_int_time_ms,
           elapsed_time_us,
           trigger_rate,
           hdrDone,
           readySincePulse,
           readyReports,
           lastTrigger,
           strobe_channel,
           controller_port,
           HWTriggerHDR,
           maxExposure,
           ctcTriggerChannel,
           lastDatum,
           async_data,
           default_is_synchronous,
           sensorConfig,
           paramValue,
           paramEmits,
           paramRequest,
           hwTriggers,
           readyNow,
           hwPulsed,
           readyPending,
           readyToTrigger,
           hw_triggered_cameras,
           db_tries,
           first_alternate,
           output_mode,
           stateMsgs,
           enableOutcome,
           powerOff,
           shutdownAcks,
           controllerCurrentState,
           controllerStarting,
           controllerThread,
           always_trigger_at_start,
           use_controller,
           installed_sensors,
           video_sync_divider,
           still_sync_divider >>

camVars == << acquiring, total_triggers, n_triggered, save_this_still,
              save_this_frame, save_image, image_number, sw_trig_timer,
              trigger_divider, save_stills_divider, save_video_divider,
              save_stills, save_video, commands, nComplete, lastComplete,
              lastStill >>

vars == << coordVars, camVars >>

\* The state as one record, for the handlers to transform.
Cur ==
    [ started |-> started, cameras |-> cameras, received |-> received,
      isTriggering |-> isTriggering, isAcquiring |-> isAcquiring,
      isExiting |-> isExiting, shutdownOnExit |-> shutdownOnExit,
      triggerTimer |-> triggerTimer, timeoutTimer |-> timeoutTimer,
      shutdownTimer |-> shutdownTimer, n_images |-> n_images,
      this_images |-> this_images,
      acqisition_teardown_tries |-> acqisition_teardown_tries,
      serial_threads_finished |-> serial_threads_finished,
      server_finished |-> server_finished, delayTimer |-> delayTimer,
      staleTimers |-> staleTimers, quit |-> quit, camAcquiring |-> camAcquiring,
      wedged |-> wedged, pending |-> pending, stopPending |-> stopPending,
      server |-> server, serial |-> serial,
      start_server |-> start_server, trigger_limit |-> trigger_limit,
      shut_down_on_exit |-> shut_down_on_exit, lastIssued |-> lastIssued,
      timedOut |-> timedOut, completed |-> completed,
      stops |-> stops, polls |-> polls, startOk |-> startOk,
      synchronous_timeout_secs |-> synchronous_timeout_secs,
      use_db |-> use_db, dbFile |-> dbFile, imgDelivered |-> imgDelivered,
      saved_last_still |-> saved_last_still,
      saved_last_frame |-> saved_last_frame,
      n_saved_stills |-> n_saved_stills, n_saved_frames |-> n_saved_frames,
      clock |-> clock, trig_time |-> trig_time,
      syncdSensorData |-> syncdSensorData,
      sync_trigger_messages |-> sync_trigger_messages, images |-> images,
      sensor_data |-> sensor_data, files |-> files, dbState |-> dbState,
      cacheAtTrigger |-> cacheAtTrigger, startNumber |-> startNumber,
      maxIssued |-> maxIssued, sessions |-> sessions,
      still_sync_divider |-> still_sync_divider,
      video_sync_divider |-> video_sync_divider,
      installed_sensors |-> installed_sensors,
      use_controller |-> use_controller,
      always_trigger_at_start |-> always_trigger_at_start,
      controllerThread |-> controllerThread,
      controllerStarting |-> controllerStarting,
      controllerCurrentState |-> controllerCurrentState,
      shutdownAcks |-> shutdownAcks,
      powerOff |-> powerOff,
      enableOutcome |-> enableOutcome,
      stateMsgs |-> stateMsgs,
      output_mode |-> output_mode,
      first_alternate |-> first_alternate,
      db_tries |-> db_tries,
      hw_triggered_cameras |-> hw_triggered_cameras,
      readyToTrigger |-> readyToTrigger,
      readyPending |-> readyPending,
      hwPulsed |-> hwPulsed,
      readyNow |-> readyNow,
      hwTriggers |-> hwTriggers,
      paramRequest |-> paramRequest,
      paramEmits |-> paramEmits,
      paramValue |-> paramValue,
      sensorConfig |-> sensorConfig,
      default_is_synchronous |-> default_is_synchronous,
      async_data |-> async_data,
      lastDatum |-> lastDatum,
      ctcTriggerChannel |-> ctcTriggerChannel,
      maxExposure |-> maxExposure,
      HWTriggerHDR |-> HWTriggerHDR,
      controller_port |-> controller_port,
      strobe_channel |-> strobe_channel,
      lastTrigger |-> lastTrigger,
      readyReports |-> readyReports,
      readySincePulse |-> readySincePulse,
      hdrDone |-> hdrDone,
      trigger_rate |-> trigger_rate,
      elapsed_time_us |-> elapsed_time_us,
      next_int_time_ms |-> next_int_time_ms,
      cam_ok |-> cam_ok,
      disk_ok |-> disk_ok,
      readySignals |-> readySignals,
      shutdownInterval |-> shutdownInterval,
      teardowns |-> teardowns,
      db_is_open |-> db_is_open,
      closedWrites |-> closedWrites,
      triggerSignal |-> triggerSignal,
      found |-> found ]

Commit(s0) ==
    \E s \in {s0} :
    /\ started' = s.started
    /\ cameras' = s.cameras
    /\ received' = s.received
    /\ isTriggering' = s.isTriggering
    /\ isAcquiring' = s.isAcquiring
    /\ isExiting' = s.isExiting
    /\ shutdownOnExit' = s.shutdownOnExit
    /\ triggerTimer' = s.triggerTimer
    /\ timeoutTimer' = s.timeoutTimer
    /\ shutdownTimer' = s.shutdownTimer
    /\ n_images' = s.n_images
    /\ this_images' = s.this_images
    /\ acqisition_teardown_tries' = s.acqisition_teardown_tries
    /\ serial_threads_finished' = s.serial_threads_finished
    /\ server_finished' = s.server_finished
    /\ delayTimer' = s.delayTimer
    /\ staleTimers' = s.staleTimers
    /\ quit' = s.quit
    /\ camAcquiring' = s.camAcquiring
    /\ wedged' = s.wedged
    /\ pending' = s.pending
    /\ stopPending' = s.stopPending
    /\ server' = s.server
    /\ serial' = s.serial
    /\ start_server' = s.start_server
    /\ trigger_limit' = s.trigger_limit
    /\ shut_down_on_exit' = s.shut_down_on_exit
    /\ lastIssued' = s.lastIssued
    /\ timedOut' = s.timedOut
    /\ completed' = s.completed
    /\ stops' = s.stops
    /\ polls' = s.polls
    /\ startOk' = s.startOk
    /\ synchronous_timeout_secs' = s.synchronous_timeout_secs
    /\ use_db' = s.use_db
    /\ dbFile' = s.dbFile
    /\ imgDelivered' = s.imgDelivered
    /\ saved_last_still' = s.saved_last_still
    /\ saved_last_frame' = s.saved_last_frame
    /\ n_saved_stills' = s.n_saved_stills
    /\ n_saved_frames' = s.n_saved_frames
    /\ clock' = s.clock
    /\ trig_time' = s.trig_time
    /\ syncdSensorData' = s.syncdSensorData
    /\ sync_trigger_messages' = s.sync_trigger_messages
    /\ images' = s.images
    /\ sensor_data' = s.sensor_data
    /\ files' = s.files
    /\ dbState' = s.dbState
    /\ cacheAtTrigger' = s.cacheAtTrigger
    /\ startNumber' = s.startNumber
    /\ maxIssued' = s.maxIssued
    /\ sessions' = s.sessions
    /\ found' = s.found
    /\ triggerSignal' = s.triggerSignal
    /\ closedWrites' = s.closedWrites
    /\ db_is_open' = s.db_is_open
    /\ teardowns' = s.teardowns
    /\ shutdownInterval' = s.shutdownInterval
    /\ readySignals' = s.readySignals
    /\ disk_ok' = s.disk_ok
    /\ cam_ok' = s.cam_ok
    /\ next_int_time_ms' = s.next_int_time_ms
    /\ elapsed_time_us' = s.elapsed_time_us
    /\ trigger_rate' = s.trigger_rate
    /\ hdrDone' = s.hdrDone
    /\ readySincePulse' = s.readySincePulse
    /\ readyReports' = s.readyReports
    /\ lastTrigger' = s.lastTrigger
    /\ strobe_channel' = s.strobe_channel
    /\ controller_port' = s.controller_port
    /\ HWTriggerHDR' = s.HWTriggerHDR
    /\ maxExposure' = s.maxExposure
    /\ ctcTriggerChannel' = s.ctcTriggerChannel
    /\ lastDatum' = s.lastDatum
    /\ async_data' = s.async_data
    /\ default_is_synchronous' = s.default_is_synchronous
    /\ sensorConfig' = s.sensorConfig
    /\ paramValue' = s.paramValue
    /\ paramEmits' = s.paramEmits
    /\ paramRequest' = s.paramRequest
    /\ hwTriggers' = s.hwTriggers
    /\ readyNow' = s.readyNow
    /\ hwPulsed' = s.hwPulsed
    /\ readyPending' = s.readyPending
    /\ readyToTrigger' = s.readyToTrigger
    /\ hw_triggered_cameras' = s.hw_triggered_cameras
    /\ db_tries' = s.db_tries
    /\ first_alternate' = s.first_alternate
    /\ output_mode' = s.output_mode
    /\ stateMsgs' = s.stateMsgs
    /\ enableOutcome' = s.enableOutcome
    /\ powerOff' = s.powerOff
    /\ shutdownAcks' = s.shutdownAcks
    /\ controllerCurrentState' = s.controllerCurrentState
    /\ controllerStarting' = s.controllerStarting
    /\ controllerThread' = s.controllerThread
    /\ always_trigger_at_start' = s.always_trigger_at_start
    /\ use_controller' = s.use_controller
    /\ installed_sensors' = s.installed_sensors
    /\ video_sync_divider' = s.video_sync_divider
    /\ still_sync_divider' = s.still_sync_divider
    /\ UNCHANGED camVars

\* all(self.received.values())
AllReceived(s) == \A c \in DOMAIN s.received : s.received[c]

\* for cam_name in self.cameras: self.received[cam_name] = False
ResetReceived(s) ==
    [c \in (DOMAIN s.received) \cup s.cameras |->
        IF c \in s.cameras THEN FALSE ELSE s.received[c]]

\* self.received[name] = True
MarkReceived(s, name) ==
    [c \in (DOMAIN s.received) \cup {name} |->
        IF c = name THEN TRUE ELSE s.received[c]]

\* A camera worker takes a trigger or stop command when the coordinator still
\* holds it, its thread runs, and (for a trigger) it is acquiring:
\* CV2VideoCamera.trigger returns at once when not self.acquiring.
AcceptsTrigger(s, c) == c \in s.cameras /\ c \notin s.wedged /\ s.camAcquiring[c]

AcceptsStop(s, c) == c \in s.cameras /\ c \notin s.wedged

NoReceived == [c \in {} |-> TRUE]

\* controller.trigger has not been called since TriggerCameras.
NoTrigger ==
    [called |-> FALSE, strobePreFire |-> 0, strobe1Exp |-> 0, strobe2Exp |-> 0,
     trig |-> <<FALSE, FALSE>>, ready |-> {}, waiting |-> {}, nreports |-> 0]

\* AcquisitionBase.AcqisitionTeardown
AcqisitionTeardown(s) ==
    [s EXCEPT
        !.shutdownTimer = FALSE,
        !.serial_threads_finished = ~(s.serial \in {"monitoring", "stopping"}),
        !.serial = IF s.serial = "monitoring" THEN "stopping" ELSE @,
        !.server_finished = IF s.start_server THEN FALSE ELSE @,
        !.server = IF s.start_server /\ s.server = "running" THEN "stopping" ELSE @,
        !.received = NoReceived,
        !.cameras = {},
        !.acqisition_teardown_tries = 0,
        !.staleTimers = IF s.delayTimer = "off" THEN @
                        ELSE [@ EXCEPT ![s.delayTimer] = @ + 1],
        !.delayTimer = "poll",
        !.polls = 0,
        !.db_is_open = FALSE,
        !.teardowns = @ + 1]

\* CamtrawlAcquisition.AcqisitionTeardown: a controller that was created is
\* told to stop and the teardown goes on in ControllerStopped.
CamtrawlAcqisitionTeardown(s) ==
    IF s.controllerThread # "none"
    THEN [s EXCEPT !.controllerThread = IF @ = "running" THEN "stopping" ELSE @]
    ELSE [AcqisitionTeardown(s) EXCEPT !.readyToTrigger = NoReceived]

\* CamtrawlAcquisition.ControllerStopped
ControllerStopped(s) ==
    [AcqisitionTeardown([s EXCEPT !.controllerThread = "stopped"])
        EXCEPT !.readyToTrigger = NoReceived]

\* TeardownReady with the bail-out one poll late.
TeardownReadyLate(tries, serverDone, serialDone) ==
    tries > TEARDOWN_TRIES \/ (serverDone /\ serialDone)

\* The test of AcqisitionTeardownTimeout: bail out or everything has shut down.
TeardownReady(tries, serverDone, serialDone) ==
    tries >= TEARDOWN_TRIES \/ (serverDone /\ serialDone)

\* AcquisitionBase.AcqisitionTeardownTimeout: the kind of timer it arms
AcqisitionTeardownTimeout(s) ==
    LET r == [s EXCEPT !.acqisition_teardown_tries = @ + 1]
    IN  [r EXCEPT !.delayTimer =
            IF TeardownReady(r.acqisition_teardown_tries, r.server_finished,
                             r.serial_threads_finished)
            THEN "final" ELSE "poll"]

\* AcquisitionBase.AcqisitionTeardown2
AcqisitionTeardown2(s) == [s EXCEPT !.powerOff = s.shutdownOnExit, !.quit = TRUE]

\* StopAcquisition that leaves shutdownOnExit as it is.
StopAcquisitionKeepsShutdown(s, exit_app, shutdown_on_exit) ==
    LET r == [s EXCEPT
                !.isTriggering = FALSE,
                !.triggerTimer = FALSE,
                !.timeoutTimer = FALSE,
                !.received = ResetReceived(s),
                !.isExiting = exit_app,
                !.enableOutcome = IF @ = "armed" THEN "stopped" ELSE @,
                !.stops = @ + 1]
    IN  IF s.isAcquiring
        THEN [r EXCEPT
                !.stopPending = [c \in Cams |->
                    IF AcceptsStop(s, c) THEN s.stopPending[c] + 1 ELSE s.stopPending[c]],
                !.camAcquiring = [c \in Cams |->
                    IF AcceptsStop(s, c) THEN FALSE ELSE s.camAcquiring[c]]]
        ELSE CamtrawlAcqisitionTeardown(r)

\* AcquisitionBase.StopAcquisition
StopAcquisition(s, exit_app, shutdown_on_exit) ==
    LET r == [s EXCEPT
                !.isTriggering = FALSE,
                !.triggerTimer = FALSE,
                !.timeoutTimer = FALSE,
                !.received = ResetReceived(s),
                !.isExiting = exit_app,
                !.shutdownOnExit = shutdown_on_exit,
                !.enableOutcome = IF @ = "armed" THEN "stopped" ELSE @,
                !.stops = @ + 1]
    IN  IF s.isAcquiring
        THEN [r EXCEPT
                !.stopPending = [c \in Cams |->
                    IF AcceptsStop(s, c) THEN s.stopPending[c] + 1 ELSE s.stopPending[c]],
                !.camAcquiring = [c \in Cams |->
                    IF AcceptsStop(s, c) THEN FALSE ELSE s.camAcquiring[c]]]
        ELSE CamtrawlAcqisitionTeardown(r)

\* The states of the power and control board, in the order of their values:
\* every state from FORCE_ON_REMOVED on is a shutdown state.
STARTING == 0

FORCED_ON == 1

AT_DEPTH == 2

PRESSURE_SW_CLOSED == 3

FORCE_ON_REMOVED == 4

SHALLOW == 5

PRESSURE_SW_OPENED == 6

LOW_BATT == 7

PC_ERROR == 8

ControllerStates == STARTING .. PC_ERROR

\* CamtrawlAcquisition.StartController
StartController(s) ==
    [s EXCEPT
        !.controllerThread = "running",
        !.controllerStarting = TRUE,
        !.controllerCurrentState = 0]

\* EnablesTriggering with the pressure switch left out.
EnablesTriggeringNoSwitch(s, new_state) ==
    \/ new_state = FORCED_ON /\ s.always_trigger_at_start
    \/ new_state = AT_DEPTH

\* The branches of ControllerStateChanged that start the triggering.
EnablesTriggering(s, new_state) ==
    \/ new_state = FORCED_ON /\ s.always_trigger_at_start
    \/ new_state = AT_DEPTH
    \/ new_state = PRESSURE_SW_CLOSED

\* The delays ControllerStateChanged gives the shutdown timer, in ms.
forced_on_delay_ms == 300000
not_ready_delay_ms == 30000

\* The first message of the board: the ready signal is sent.
FirstContact(s) ==
    [s EXCEPT !.controllerStarting = FALSE, !.readySignals = @ + 1]

\* ControllerStateChanged on the first message when the cameras or the disk
\* are not ready: the shutdown is delayed, unless the board is forced on and
\* shut_down_on_exit is not set, when the application exits at once.
NotReadyContact(s, new_state) ==
    LET f == FirstContact(s) IN
    IF new_state # FORCED_ON \/ f.shut_down_on_exit
    THEN [f EXCEPT
            !.shutdownTimer = TRUE,
            !.shutdownInterval = IF new_state = FORCED_ON
                                 THEN forced_on_delay_ms
                                 ELSE not_ready_delay_ms]
    ELSE StopAcquisition(f, TRUE, FALSE)

\* ControllerStateChanged with the test of the tracked state left out.
ControllerStateChangedAlways(s, new_state) ==
    IF s.controllerStarting /\ ~(s.cam_ok /\ s.disk_ok)
    THEN NotReadyContact(s, new_state) ELSE
    LET f == IF s.controllerStarting
             THEN [FirstContact(s) EXCEPT !.isAcquiring = TRUE]
             ELSE s
        r == IF EnablesTriggering(f, new_state)
             THEN [f EXCEPT !.isTriggering = TRUE, !.triggerTimer = TRUE,
                            !.enableOutcome = "armed"]
             ELSE IF new_state >= FORCE_ON_REMOVED
             THEN StopAcquisition([f EXCEPT !.shutdownTimer = FALSE,
                                            !.shutdownAcks = @ + 1],
                                  TRUE, TRUE)
             ELSE f
    IN  [r EXCEPT !.controllerCurrentState = new_state]

\* CamtrawlAcquisition.ControllerStateChanged.  The controller is started only
\* after a setup that found the disk and the cameras ready, so the first message of
\* the board takes the branch that sets isAcquiring.
ControllerStateChanged(s, new_state) ==
    IF s.controllerStarting /\ ~(s.cam_ok /\ s.disk_ok)
    THEN NotReadyContact(s, new_state) ELSE
    LET f == IF s.controllerStarting
             THEN [FirstContact(s) EXCEPT !.isAcquiring = TRUE]
             ELSE s
    IN  IF f.controllerCurrentState = new_state
        THEN f
        ELSE LET r == IF EnablesTriggering(f, new_state)
                      THEN [f EXCEPT !.isTriggering = TRUE, !.triggerTimer = TRUE,
                            !.enableOutcome = "armed"]
                      ELSE IF new_state >= FORCE_ON_REMOVED
                      THEN StopAcquisition([f EXCEPT !.shutdownTimer = FALSE,
                                                     !.shutdownAcks = @ + 1],
                                           TRUE, TRUE)
                      ELSE f
             IN  [r EXCEPT !.controllerCurrentState = new_state]

Abs(x) == IF x < 0 THEN -x ELSE x

\* The freshness test of TriggerCameras with the strict comparison.
IsFreshStrict(timeout, trig, t) == timeout < 0 \/ Abs(trig - t) < timeout

\* The freshness test of TriggerCameras on a cached reading of time t.
IsFresh(timeout, trig, t) == timeout < 0 \/ Abs(trig - t) <= timeout

\* The rows TriggerCameras stages: the cached readings that are fresh.
StagedRows(s) ==
    { << s.n_images, s.syncdSensorData[x], x >> :
        x \in { y \in Sensors :
                    /\ s.syncdSensorData[y] # NoReading
                    /\ IsFresh(s.synchronous_timeout_secs, s.clock,
                               s.syncdSensorData[y]) } }

\* The hardware triggered cameras the coordinator holds.
HwCameras(s) == s.hw_triggered_cameras \cap s.cameras

\* A hardware triggered camera answers a trigger command with triggerReady,
\* which is connected to HWTriggerReady when the controller is in use.
EmitsReady(s, c) == s.use_controller /\ c \in HwCameras(s) /\ AcceptsTrigger(s, c)

\* CamtrawlAcquisition.TriggerCameras before it calls the method of the base
\* class: the readiness of the hardware triggered cameras is reset.  The
\* triggerReady signals still in flight now answer an earlier TriggerCameras.
ResetReadiness(s) ==
    [s EXCEPT
        !.readyToTrigger = [c \in (DOMAIN @) \cup HwCameras(s) |->
            IF c \in HwCameras(s) THEN FALSE ELSE @[c]],
        !.readyPending = [c \in Cams |->
            LET old == [i \in 1..Len(@[c]) |-> FALSE]
            IN  IF EmitsReady(s, c) THEN Append(old, TRUE) ELSE old],
        !.readyNow = {},
        !.hwTriggers = 0,
        !.ctcTriggerChannel = IF s.hw_triggered_cameras # {}
                              THEN <<FALSE, FALSE>> ELSE @,
        !.maxExposure = IF s.hw_triggered_cameras # {} THEN 0 ELSE @,
        !.HWTriggerHDR = [c \in (DOMAIN @) \cup HwCameras(s) |->
            IF c \in HwCameras(s) THEN FALSE ELSE @[c]],
        !.lastTrigger = NoTrigger,
        !.readyReports = << >>,
        !.readySincePulse = {}]

\* AcquisitionBase.TriggerCameras, called by CamtrawlAcquisition.TriggerCameras
TriggerCameras(s0) ==
    LET s == ResetReadiness(s0) IN
    [s EXCEPT
        !.received = ResetReceived(s),
        !.saved_last_still = FALSE,
        !.saved_last_frame = FALSE,
        !.trig_time = s.clock,
        !.sync_trigger_messages = IF s.use_db THEN StagedRows(s) ELSE @,
        !.cacheAtTrigger = s.syncdSensorData,
        !.timeoutTimer = TRUE,
        !.pending = [c \in Cams |->
            IF AcceptsTrigger(s, c) THEN Append(s.pending[c], s.n_images)
            ELSE s.pending[c]],
        !.triggerSignal = 1 - @,
        !.lastIssued = s.n_images,
        !.timedOut = IF s.n_images = s.lastIssued THEN @ ELSE FALSE,
        !.completed = 0]

\* TriggerTimeout that moves on to the next image number.
TriggerTimeoutSkipping(s) ==
    [TriggerCameras([s EXCEPT !.n_images = @ + 1]) EXCEPT !.timedOut = TRUE]

\* TriggerTimeout that logs the warning and does not trigger again.
TriggerTimeoutGivesUp(s) == [s EXCEPT !.timedOut = TRUE]

\* AcquisitionBase.TriggerTimeout
TriggerTimeout(s) == [TriggerCameras(s) EXCEPT !.timedOut = TRUE]

\* A call of a write method of metadata_db (insert_async_data,
\* insert_sync_data, add_image, add_dropped): `stored' is the coordinator with
\* the row in its table; after db.close() the query fails and no row is
\* stored.
DbWrite(s, stored) ==
    IF s.db_is_open THEN stored ELSE [s EXCEPT !.closedWrites = @ + 1]

\* write_sync of CamTriggerComplete without its test of the video frames.
WriteSyncStillsOnly(s) ==
    (s.n_saved_stills % s.still_sync_divider) = 0 /\ s.saved_last_still

\* write_sync of CamTriggerComplete
WriteSync(s) ==
    \/ (s.n_saved_stills % s.still_sync_divider) = 0 /\ s.saved_last_still
    \/ (s.n_saved_frames % s.video_sync_divider) = 0 /\ s.saved_last_frame

\* int(x) of Python for the quotient num / den, den > 0: the fraction is cut
\* off, towards zero.
IntOfQuotient(num, den) ==
    IF num >= 0 THEN num \div den ELSE 0 - ((0 - num) \div den)

\* next_int_time_ms without the test for a negative value.
NextIntervalUnclamped(rate, elapsed_us) ==
    IntOfQuotient(1000000 - elapsed_us * rate, 1000 * rate)

\* next_int_time_ms of CamTriggerComplete: elapsed_time_ms is elapsed_us / 1000
\* and acq_interval_ms is 1000.0 / rate, so their difference is
\* (1000000 - elapsed_us * rate) / (1000 * rate).
NextInterval(rate, elapsed_us) ==
    LET next == IntOfQuotient(1000000 - elapsed_us * rate, 1000 * rate)
    IN  IF next < 0 THEN 0 ELSE next

\* The completion logic of CamTriggerComplete (the body of `if all(...)').
OnCycleComplete(s) ==
    LET w == IF s.use_db /\ WriteSync(s) /\ s.sync_trigger_messages # {}
             THEN DbWrite(s, [s EXCEPT !.sensor_data = @ \cup s.sync_trigger_messages])
             ELSE s
        u == [w EXCEPT
                !.n_images = @ + 1,
                !.this_images = @ + 1,
                !.timeoutTimer = FALSE,
                !.completed = @ + 1]
    IN  IF s.trigger_limit > 0 /\ u.this_images > s.trigger_limit
        THEN StopAcquisition(u, TRUE, s.shut_down_on_exit)
        ELSE [u EXCEPT
                !.next_int_time_ms = NextInterval(s.trigger_rate, s.elapsed_time_us),
                !.triggerTimer = IF u.isTriggering THEN TRUE ELSE @]

\* A camera that has prepared an exposure (its triggerReady was delivered) and
\* has not yet received the pulse for it.
Armed(s, c) ==
    /\ c \in HwCameras(s)
    /\ Len(s.pending[c]) - Len(s.readyPending[c]) - s.hwPulsed[c] > 0

\* HWTriggerReady that triggers as soon as one camera is ready.
HWTriggerReadyAny(s, c) ==
    [s EXCEPT
        !.readyToTrigger = [k \in (DOMAIN @) \cup {c} |-> IF k = c THEN TRUE ELSE @[k]],
        !.hwTriggers = @ + 1,
        !.hwPulsed = [k \in Cams |-> IF Armed(s, k) THEN @[k] + 1 ELSE @[k]]]

\* The strobe exposure follows the latest camera instead of the longest.
LatestExposure(maxExposure_, exposure_us) == exposure_us

\* `if self.maxExposure < exposure_us: self.maxExposure = exposure_us'
LongestExposure(maxExposure_, exposure_us) ==
    IF maxExposure_ < exposure_us THEN exposure_us ELSE maxExposure_

\* The place of a controller port in ctcTriggerChannel: the port numbering
\* starts at 1 and the list is indexed with port - 1; the first element of
\* the list, here the element 1 of the tuple, is the first port argument of
\* controller.trigger.
ChannelOfPort(port) == (port - 1) + 1

\* The arguments of the call of controller.trigger at the end of
\* HWTriggerReady, with the cameras that have reported ready since the call
\* before it and the cameras whose triggerReady is still in flight.
ControllerTrigger(s) ==
    [called |-> TRUE,
     strobePreFire |-> IF \E k \in DOMAIN s.HWTriggerHDR : s.HWTriggerHDR[k]
                       THEN 0 ELSE strobe_pre_fire,
     strobe1Exp |-> IF s.strobe_channel = 2 THEN 0 ELSE s.maxExposure,
     strobe2Exp |-> IF s.strobe_channel = 1 THEN 0 ELSE s.maxExposure,
     trig |-> s.ctcTriggerChannel,
     ready |-> s.readySincePulse,
     waiting |-> {k \in HwCameras(s) : s.readyPending[k] # << >>},
     nreports |-> Len(s.readyReports)]

\* CamtrawlAcquisition.HWTriggerReady.  The pulse of the controller reaches
\* the armed cameras on the trigger ports that are enabled.
HWTriggerReady(s, cam, exposure_us, is_HDR) ==
    LET r == [s EXCEPT
                !.readyToTrigger =
                    [k \in (DOMAIN @) \cup {cam} |-> IF k = cam THEN TRUE ELSE @[k]],
                !.HWTriggerHDR =
                    [k \in (DOMAIN @) \cup {cam} |-> IF k = cam THEN is_HDR ELSE @[k]],
                !.ctcTriggerChannel =
                    IF exposure_us > 0
                    THEN [@ EXCEPT ![ChannelOfPort(s.controller_port[cam])] = TRUE]
                    ELSE @,
                !.received = IF exposure_us > 0 THEN @ ELSE MarkReceived(s, cam),
                !.maxExposure = LongestExposure(@, exposure_us),
                !.readyReports =
                    Append(@, [cam |-> cam, exposure_us |-> exposure_us]),
                !.readySincePulse = @ \cup {cam}]
    IN  IF \A k \in DOMAIN r.readyToTrigger : r.readyToTrigger[k]
        THEN [r EXCEPT
                !.hwTriggers = @ + 1,
                !.hwPulsed = [k \in Cams |->
                    IF Armed(r, k)
                       /\ r.ctcTriggerChannel[ChannelOfPort(r.controller_port[k])]
                    THEN @[k] + 1 ELSE @[k]],
                !.lastTrigger = ControllerTrigger(r),
                !.readySincePulse = {}]
        ELSE r

\* AcquisitionBase.CamTriggerComplete
CamTriggerComplete(s, c) ==
    LET r == [s EXCEPT !.received = MarkReceived(s, c)]
    IN  IF AllReceived(r) THEN OnCycleComplete(r) ELSE r

\* AcquisitionBase.CamImageAcquired with image_data['ok'], ['save_still'] and
\* ['save_frame'] (the rows of the dropped table are not followed)
CamImageAcquired(s, ok, save_still, save_frame) ==
    IF ~ok THEN (IF s.use_db THEN DbWrite(s, s) ELSE s)
    ELSE LET a == IF save_still /\ ~s.saved_last_still
                  THEN [s EXCEPT !.saved_last_still = TRUE, !.n_saved_stills = @ + 1]
                  ELSE s
             b == IF save_frame /\ ~a.saved_last_frame
                  THEN [a EXCEPT !.saved_last_frame = TRUE, !.n_saved_frames = @ + 1]
                  ELSE a
         IN  IF b.use_db /\ (save_still \/ (video_log_frames /\ save_frame))
             THEN DbWrite(b, [b EXCEPT !.images[b.dbFile] = @ \cup {b.n_images}])
             ELSE b

\* AcquisitionBase.SensorDataAvailable for a synchronous sensor: rx_time is
\* the time of the reading.
SensorDataAvailable(s, sensor_id, rx_time) ==
    [s EXCEPT !.syncdSensorData[sensor_id] = rx_time]

\* The loop of AcquisitionSetup over the installed sensors: is_synchronous is
\* set from the type of the sensor, its synced_headers and async_headers are
\* appended to the lists of the sensors section, last_write is set to None.
ConfigureSensors(s) ==
    LET inst == s.sensorConfig.installed_sensors IN
    [s EXCEPT
        !.sensorConfig.synchronous =
            @ \cup UNION {inst[x].synced_headers : x \in DOMAIN inst},
        !.sensorConfig.asynchronous =
            @ \cup UNION {inst[x].async_headers : x \in DOMAIN inst},
        !.sensorConfig.installed_sensors = [x \in DOMAIN inst |->
            [inst[x] EXCEPT
                !.is_synchronous = IF inst[x].type = "none"
                                   THEN s.default_is_synchronous
                                   ELSE inst[x].type = "synced",
                !.last_write = NoReading]]]

\* is_synchronous of SensorDataAvailable
IsSynchronous(s, header) ==
    IF header \in s.sensorConfig.synchronous THEN TRUE
    ELSE IF header \in s.sensorConfig.asynchronous THEN FALSE
    ELSE s.default_is_synchronous

\* datetime.timedelta.seconds of a difference of time_diff milliseconds
TimedeltaSeconds(time_diff) == (time_diff % DayMs) \div 1000

\* The test of the logging interval in SensorDataAvailable
IntervalPassed(time_diff, logging_interval_ms) ==
    TimedeltaSeconds(time_diff) * 1000 >= logging_interval_ms

\* The asynchronous branch of SensorDataAvailable: write_async, and the
\* last_write of the sensor after it.  An interval of 0 stands for None.
AsyncWrite(s, sensor_id, rx_time) ==
    LET cfg == s.sensorConfig.installed_sensors[sensor_id] IN
    IF cfg.logging_interval_ms = 0
    THEN [write_async |-> TRUE, last_write |-> cfg.last_write]
    ELSE IF cfg.last_write = NoReading
    THEN [write_async |-> TRUE, last_write |-> rx_time]
    ELSE IF IntervalPassed(rx_time - cfg.last_write, cfg.logging_interval_ms)
    THEN [write_async |-> TRUE, last_write |-> rx_time]
    ELSE [write_async |-> FALSE, last_write |-> cfg.last_write]

\* AcquisitionBase.SensorDataAvailable for any datagram: rx_time is in
\* milliseconds; a synchronous datagram is cached under the time of the clock.
SensorDatagram(s, sensor_id, header, rx_time) ==
    LET inst == s.sensorConfig.installed_sensors
        note(r, class, written) ==
            [r EXCEPT !.lastDatum =
                [n |-> s.lastDatum.n + 1, sensor |-> sensor_id, header |-> header,
                 rx_time |-> rx_time, class |-> class, written |-> written,
                 prev_write |-> IF sensor_id \in DOMAIN inst
                                THEN inst[sensor_id].last_write ELSE NoReading]]
    IN  IF sensor_id \notin DOMAIN inst THEN note(s, "unknown", FALSE)
        ELSE IF header \in inst[sensor_id].ignore_headers
        THEN note(s, "ignored", FALSE)
        ELSE IF IsSynchronous(s, header)
        THEN note(SensorDataAvailable(s, sensor_id, s.clock), "sync", FALSE)
        ELSE IF ~s.use_db THEN note(s, "async", FALSE)
        ELSE LET w == AsyncWrite(s, sensor_id, rx_time)
                 r == [s EXCEPT
                        !.sensorConfig.installed_sensors[sensor_id].last_write =
                            w.last_write]
             IN  note(IF w.write_async
                      THEN DbWrite(r, [r EXCEPT !.async_data =
                                @ \cup {<< rx_time, sensor_id, header >>}])
                      ELSE r,
                      "async", w.write_async)

MaxOf(S) == CHOOSE x \in S : \A y \in S : y <= x

\* metadata_db.get_next_image_number
get_next_image_number(table) == IF table = {} THEN 1 ELSE MaxOf(table) + 1

\* self.db.open of alternate n_try: with the database "corrupt" the alternates
\* from first_alternate on open, with it "unusable" none does.
AlternateOpens(s, n_try) == s.dbState = "corrupt" /\ n_try >= s.first_alternate

\* The loop over the alternates without its break.
TryAlternatesAll(s, n_try) ==
    [is_open |-> \E k \in n_try .. MAX_DB_ALTERNATES - 1 : AlternateOpens(s, k),
     tries |-> MAX_DB_ALTERNATES]

\* The loop of OpenDatabase over the alternates n_try .. MAX_DB_ALTERNATES - 1,
\* which breaks at the first alternate that opens: whether one is open after
\* the loop and how many alternates were tried.
TryAlternates(s, n_try) ==
    LET opens == {k \in n_try .. MAX_DB_ALTERNATES - 1 : AlternateOpens(s, k)}
    IN  IF opens = {}
        THEN [is_open |-> FALSE, tries |-> MAX_DB_ALTERNATES]
        ELSE [is_open |-> TRUE,
              tries |-> (CHOOSE k \in opens : \A j \in opens : k <= j) + 1]

\* AcquisitionBase.OpenDatabase: the database file opens, or (combined mode)
\* an alternate file does, or none does and the image files are scanned.
OpenDatabase(s) ==
    LET alt == IF s.dbState # "ok" /\ s.output_mode = "combined"
               THEN TryAlternates(s, 0)
               ELSE [is_open |-> FALSE, tries |-> 0]
        f == IF s.dbState = "ok" THEN "main"
             ELSE IF alt.is_open THEN "alt" ELSE "none"
        n == IF f # "none" THEN get_next_image_number(s.images[f])
             ELSE IF s.files = {} THEN 1 ELSE MaxOf(s.files) + 1
    IN  [s EXCEPT !.dbFile = f, !.use_db = (f # "none"),
                  !.db_is_open = (f # "none"),
                  !.db_tries = alt.tries,
                  !.n_images = n, !.startNumber = n]

\* AcquisitionBase.AcquisitionStopped
AcquisitionStopped(s, c) ==
    LET r == [s EXCEPT !.received = MarkReceived(s, c)]
    IN  IF AllReceived(r) /\ r.isExiting THEN CamtrawlAcqisitionTeardown(r) ELSE r

\* AcquisitionBase.SetParameterRequest, acquisition/start_triggering
StartTriggering(s) ==
    IF ~s.isTriggering
    THEN [s EXCEPT !.isTriggering = TRUE, !.triggerTimer = TRUE]
    ELSE s

\* AcquisitionBase.SetParameterRequest, acquisition/stop_triggering
StopTriggering(s) == [s EXCEPT !.isTriggering = FALSE]

\* str(int(self.isTriggering))
IsTriggeringStr(s) == IF s.isTriggering THEN "1" ELSE "0"

\* The parameters of the acquisition module that SetParameterRequest handles.
AcquisitionParameters ==
    {"start_triggering", "stop_triggering", "stop_acquisition", "gain", "exposure"}

\* The third field of stop_acquisition/<client name>/<shutdown PC>
ShutdownFields == {"yes", "no", "missing"}

\* AcquisitionBase.SetParameterRequest for the acquisition module.  `cam' is
\* the camera a gain or exposure request names, `shutdown' the third field of
\* a stop_acquisition request and `ok' whether the camera took the value
\* (set_gain or set_exposure returned True and the value read back).
SetParameterRequest(s, parameter, cam, shutdown, ok) ==
    LET emit(r, value) ==
            [r EXCEPT !.paramRequest = parameter,
                      !.paramEmits = 1, !.paramValue = value]
        silent(r) ==
            [r EXCEPT !.paramRequest = parameter,
                      !.paramEmits = 0, !.paramValue = "none"]
    IN  CASE parameter = "start_triggering" ->
                LET r == StartTriggering(s) IN emit(r, IsTriggeringStr(r))
          [] parameter = "stop_triggering" ->
                LET r == StopTriggering(s) IN emit(r, IsTriggeringStr(r))
          [] parameter = "stop_acquisition" ->
                IF shutdown = "missing" THEN silent(s)
                ELSE silent(StopAcquisition(s, TRUE, shutdown = "yes"))
          [] OTHER ->
                IF cam \notin DOMAIN s.received
                THEN [s EXCEPT !.paramRequest = "unknown"]
                ELSE IF ok THEN emit(s, "camera") ELSE silent(s)

\* CamtrawlAcquisition.AcquisitionSetup2: ok is the result of ConfigureCameras
AcquisitionSetup2(s0, ok) ==
    LET s == [s0 EXCEPT !.cam_ok = s0.disk_ok /\ ok] IN
    IF s.cam_ok /\ s.disk_ok
    THEN LET r == [s EXCEPT
                    !.started = TRUE,
                    !.cameras = s.found,
                    !.received = [c \in s.found |-> FALSE],
                    !.camAcquiring = [c \in Cams |-> c \in s.found \cap s.startOk],
                    !.this_images = 1,
                    !.server = IF s.start_server THEN "running" ELSE @]
         IN  IF s.use_controller
             THEN StartController(r)
             ELSE [r EXCEPT
                    !.isAcquiring = TRUE,
                    !.isTriggering = TRUE,
                    !.triggerTimer = TRUE]
    ELSE LET r == [s EXCEPT !.started = TRUE, !.this_images = 1] IN
         IF s.shut_down_on_exit
         THEN [r EXCEPT !.shutdownOnExit = TRUE, !.shutdownTimer = TRUE]
         ELSE StopAcquisition(r, TRUE, FALSE)

----------------------------------------------------------------------------
\* The events of the coordinator's event loop.

Running == started /\ ~quit

\* startTimer -> AcquisitionSetup -> AcquisitionSetup2
Setup ==
    /\ ~started /\ ~quit
    /\ \E disk \in BOOLEAN, ok \in BOOLEAN :
        Commit(AcquisitionSetup2(ConfigureSensors(OpenDatabase(
                    [Cur EXCEPT !.disk_ok = disk])), ok))

\* bounds of the session: image numbers issued, commands in flight
MayTrigger ==
    /\ n_images <= MaxImages
    /\ \A c \in Cams : Len(pending[c]) < MaxPending

\* triggerTimer.timeout -> TriggerCameras
TriggerTimerFire ==
    /\ Running /\ triggerTimer /\ MayTrigger
    /\ Commit(TriggerCameras([Cur EXCEPT
            !.triggerTimer = FALSE,
            !.enableOutcome = IF @ = "armed" THEN "ticked" ELSE @]))

\* timeoutTimer.timeout -> TriggerTimeout
TimeoutTimerFire ==
    /\ Running /\ timeoutTimer /\ MayTrigger
    /\ Commit(TriggerTimeout([Cur EXCEPT !.timeoutTimer = FALSE]))

\* a camera's triggerComplete signal is delivered, one of the given times
\* after TriggerCameras
TriggerCompleteAfter(elapsed) ==
    /\ Running
    /\ \E c \in Cams, e \in elapsed :
        /\ pending[c] # << >>
        /\ c \in hw_triggered_cameras => hwPulsed[c] > 0
        /\ Commit(CamTriggerComplete(
                [Cur EXCEPT !.pending[c] = Tail(@), !.imgDelivered[c] = FALSE,
                            !.hwPulsed[c] = IF @ > 0 THEN @ - 1 ELSE @,
                            !.hdrDone[c] = 0,
                            !.elapsed_time_us = e], c))

\* a camera's triggerComplete signal is delivered
TriggerCompleteEvent == TriggerCompleteAfter({0})

\* The trigger command a triggerReady signal in flight answers: the last
\* commands of the camera are the ones whose triggerReady is in flight.
CommandOfReady(s, c) == Len(s.pending[c]) - Len(s.readyPending[c]) + 1

\* The sequence without its element i.
SeqRemove(seq, i) == SubSeq(seq, 1, i - 1) \o SubSeq(seq, i + 1, Len(seq))

\* A camera's triggerReady signal is delivered.  The camera reports one of
\* the exposures; is_HDR is set for the sub-exposures after the first.  A
\* camera that reports an exposure of zero is not going to be triggered: it
\* emits triggerComplete without a pulse (completes), or nothing more for
\* this trigger command.
TriggerReadyEvent(exposures) ==
    /\ Running
    /\ \E c \in Cams, exposure_us \in exposures, completes \in BOOLEAN :
        /\ readyPending[c] # << >>
        /\ exposure_us > 0 => completes
        /\ Commit(HWTriggerReady(
                [Cur EXCEPT
                    !.readyPending[c] = Tail(@),
                    !.readyNow = IF Head(readyPending[c]) THEN @ \cup {c} ELSE @,
                    !.pending[c] = IF completes THEN @
                                   ELSE SeqRemove(@, CommandOfReady(Cur, c)),
                    !.hwPulsed[c] = IF exposure_us <= 0 /\ completes
                                    THEN @ + 1 ELSE @],
                c, exposure_us, hdrDone[c] > 0))

\* a camera's triggerReady signal is delivered, with the exposure of the
\* default camera configuration
HWTriggerReadyEvent == TriggerReadyEvent({exposure_us_default})

\* A camera in HDR mode has taken a sub-exposure on the pulse: it prepares the
\* next one and emits triggerReady again.
HdrNextExposure ==
    /\ Running
    /\ \E c \in Cams :
        /\ hwPulsed[c] > 0
        /\ hdrDone[c] < MaxHdrExposures - 1
        /\ \A i \in 1..Len(readyReports) :
                readyReports[i].cam = c => readyReports[i].exposure_us > 0
        /\ Commit([Cur EXCEPT
                    !.hwPulsed[c] = @ - 1,
                    !.hdrDone[c] = @ + 1,
                    !.readyPending[c] = Append(@, TRUE)])

\* The image of a camera: the writer of its thread saves the still under the
\* number of the trigger command and its imageData signal is delivered.
ImageAcquired(oks, stills, frames) ==
    /\ Running
    /\ \E c \in Cams, ok \in oks, save_still \in stills, save_frame \in frames :
        /\ pending[c] # << >> /\ ~imgDelivered[c]
        /\ Commit(CamImageAcquired(
                [Cur EXCEPT !.imgDelivered[c] = TRUE,
                            !.files = IF ok /\ save_still
                                      THEN @ \cup {Head(pending[c])} ELSE @],
                ok, save_still, save_frame))

\* any image of a camera that records no video: received or not, saved as a
\* still or not
ImageAcquiredEvent == ImageAcquired(BOOLEAN, BOOLEAN, {FALSE})

\* an image of a camera that saves every still (save_stills_divider = 1)
StillAcquiredEvent == ImageAcquired(BOOLEAN, {TRUE}, {FALSE})

\* an image of a camera that saves stills and video frames by its dividers
FrameAcquiredEvent == ImageAcquired({TRUE}, BOOLEAN, BOOLEAN)

\* a synchronous sensor reports, once in a run
SensorDataEvent ==
    /\ Running
    /\ \E x \in installed_sensors :
        /\ syncdSensorData[x] = NoReading
        /\ Commit(SensorDataAvailable(Cur, x, clock))

\* a sensor sends a datagram (SerialMonitor.SerialDataReceived ->
\* SensorDataAvailable)
SensorDatagramEvent ==
    /\ Running /\ lastDatum.n < MaxDatagrams
    /\ \E sensor_id \in Sensors, header \in Headers, dt \in Elapsed :
        Commit(SensorDatagram(Cur, sensor_id, header, lastDatum.rx_time + dt))

\* a second passes
ClockTick ==
    /\ Running /\ clock < MaxClock
    /\ Commit([Cur EXCEPT !.clock = @ + 1])

\* a camera's acquisitionStopped signal is delivered
AcquisitionStoppedEvent ==
    /\ Running
    /\ \E c \in Cams :
        /\ stopPending[c] > 0
        /\ Commit(AcquisitionStopped([Cur EXCEPT !.stopPending[c] = @ - 1], c))

\* the server forwards a start_triggering request
StartTriggeringRequest ==
    /\ Running /\ server = "running"
    /\ Commit(StartTriggering(Cur))

\* the server forwards a stop_triggering request
StopTriggeringRequest ==
    /\ Running /\ server = "running"
    /\ Commit(StopTriggering(Cur))

\* the server forwards a SetParameter command for the acquisition module
ParameterRequest ==
    /\ Running /\ server = "running"
    /\ \E parameter \in AcquisitionParameters, cam \in Cams,
          shutdown \in ShutdownFields, ok \in BOOLEAN :
        /\ parameter = "stop_acquisition" => stops < MaxStops
        /\ Commit(SetParameterRequest(Cur, parameter, cam, shutdown, ok))

\* ExternalStop / CheckDiskFreeSpace / stop_acquisition: StopAcquisition(exit_app=True)
StopRequest ==
    /\ Running /\ stops < MaxStops
    /\ \E sd \in BOOLEAN : Commit(StopAcquisition(Cur, TRUE, sd))

\* shutdownTimer.timeout -> AcqisitionTeardown
ShutdownTimerFire ==
    /\ Running /\ shutdownTimer
    /\ Commit(CamtrawlAcqisitionTeardown(Cur))

\* the board reports its state (systemState -> ControllerStateChanged)
ControllerStateEvent ==
    /\ Running /\ controllerThread = "running"
    /\ stateMsgs < MaxStateMsgs
    /\ \E new_state \in ControllerStates :
        Commit(ControllerStateChanged([Cur EXCEPT !.stateMsgs = @ + 1], new_state))

\* the thread of the controller has finished (controllerStopped)
ControllerStoppedEvent ==
    /\ Running /\ controllerThread = "stopping"
    /\ Commit(ControllerStopped(Cur))

\* the delay timer of the latest teardown fires
DelayTimerFire ==
    /\ Running /\ delayTimer # "off"
    /\ LET s == [Cur EXCEPT !.delayTimer = "off", !.polls = @ + 1]
       IN  IF delayTimer = "poll"
           THEN Commit(AcqisitionTeardownTimeout(s))
           ELSE Commit(AcqisitionTeardown2(s))

\* a delay timer of an earlier teardown fires
StaleTimerFire ==
    /\ Running
    /\ \E k \in {"poll", "final"} :
        /\ staleTimers[k] > 0
        /\ LET s == [Cur EXCEPT !.staleTimers[k] = @ - 1]
           IN  IF k = "final"
               THEN Commit(AcqisitionTeardown2(s))
               ELSE LET r == [s EXCEPT !.acqisition_teardown_tries = @ + 1]
                    IN  IF TeardownReady(r.acqisition_teardown_tries,
                                         r.server_finished, r.serial_threads_finished)
                        THEN Commit([r EXCEPT !.staleTimers["final"] = @ + 1])
                        ELSE Commit([r EXCEPT !.staleTimers["poll"] = @ + 1])

\* CamtrawlServer.serverClosed -> ServerStopped
ServerStopped ==
    /\ Running /\ server = "stopping"
    /\ Commit([Cur EXCEPT !.server = "stopped", !.server_finished = TRUE])

\* SerialMonitor.SerialDevicesStopped -> SerialDevicesStopped
SerialDevicesStopped ==
    /\ Running /\ serial = "stopping"
    /\ Commit([Cur EXCEPT !.serial = "stopped", !.serial_threads_finished = TRUE])

\* No datagram was handled yet.
NoDatum ==
    [n |-> 0, sensor |-> "none", header |-> "none", rx_time |-> 0,
     class |-> "none", written |-> FALSE, prev_write |-> NoReading]

\* An installed sensor of the given type ("none": no type given) with its
\* header lists and its logging interval (0: none given).
InstalledSensor(type, synced_headers, async_headers, logging_interval_ms) ==
    [type |-> type, synced_headers |-> synced_headers,
     async_headers |-> async_headers, ignore_headers |-> {},
     logging_interval_ms |-> logging_interval_ms,
     last_write |-> NoReading, is_synchronous |-> TRUE]

\* AcquisitionBase after __init__
NotSetUp ==
    /\ started = FALSE
    /\ cameras = {}
    /\ received = NoReceived
    /\ camAcquiring = [c \in Cams |-> FALSE]
    /\ dbFile = "none"
    /\ controllerThread = "none"
    /\ controllerStarting = FALSE
    /\ cam_ok = FALSE /\ disk_ok = FALSE
    /\ db_is_open = FALSE

\* The other attributes of the coordinator after its construction, with the
\* bookkeeping of the model at zero.
Constructed ==
    /\ isTriggering = FALSE /\ isAcquiring = FALSE
    /\ isExiting = FALSE /\ shutdownOnExit = FALSE
    /\ triggerTimer = FALSE /\ timeoutTimer = FALSE /\ shutdownTimer = FALSE
    /\ n_images = 1 /\ this_images = 1
    /\ acqisition_teardown_tries = 0
    /\ serial_threads_finished = FALSE
    /\ server_finished = FALSE
    /\ delayTimer = "off"
    /\ staleTimers = [poll |-> 0, final |-> 0]
    /\ quit = FALSE
    /\ pending = [c \in Cams |-> << >>]
    /\ stopPending = [c \in Cams |-> 0]
    /\ server = "none"
    /\ lastIssued = 0 /\ timedOut = FALSE /\ completed = 0
    /\ stops = 0 /\ polls = 0
    /\ use_db = TRUE
    /\ imgDelivered = [c \in Cams |-> FALSE]
    /\ saved_last_still = FALSE /\ saved_last_frame = FALSE
    /\ n_saved_stills = 0 /\ n_saved_frames = 0
    /\ clock = 0 /\ trig_time = 0
    /\ syncdSensorData = [x \in Sensors |-> NoReading]
    /\ sync_trigger_messages = {}
    /\ cacheAtTrigger = [x \in Sensors |-> NoReading]
    /\ startNumber = 1
    /\ controllerCurrentState = 0
    /\ shutdownAcks = 0 /\ powerOff = FALSE
    /\ enableOutcome = "none" /\ stateMsgs = 0
    /\ db_tries = 0
    /\ paramRequest = "none" /\ paramEmits = 0 /\ paramValue = "none"
    /\ readyToTrigger = NoReceived
    /\ readyPending = [c \in Cams |-> << >>]
    /\ hwPulsed = [c \in Cams |-> 0]
    /\ readyNow = {} /\ hwTriggers = 0
    /\ ctcTriggerChannel = <<FALSE, FALSE>> /\ maxExposure = 0
    /\ HWTriggerHDR = NoReceived
    /\ lastTrigger = NoTrigger
    /\ readyReports = << >> /\ readySincePulse = {}
    /\ hdrDone = [c \in Cams |-> 0]
    /\ elapsed_time_us = 0 /\ next_int_time_ms = 0
    /\ readySignals = 0 /\ shutdownInterval = 0
    /\ teardowns = 0 /\ closedWrites = 0
    /\ triggerSignal = 0
    /\ async_data = {}
    /\ lastDatum = NoDatum

\* The coordinator after its construction, before the start timer fires.
CoordInit == NotSetUp /\ Constructed

\* An empty output directory.
EmptyDisk ==
    /\ images = [f \in {"main", "alt"} |-> {}]
    /\ sensor_data = {}
    /\ files = {}
    /\ maxIssued = 0 /\ sessions = 1

\* controller/use_controller of the default configuration: no power and
\* control board.
NoController ==
    /\ use_controller = FALSE
    /\ always_trigger_at_start = FALSE
    /\ hw_triggered_cameras = {}

\* All data of all runs in one folder, with one database file; when that file
\* does not open, the first alternate is tried first.
CombinedMode ==
    /\ output_mode = "combined"
    /\ first_alternate = 0

\* The sensors section of the default configuration, with the sensors that
\* report installed without a type, header lists or logging interval.
SensorsDefault ==
    /\ default_is_synchronous = TRUE
    /\ sensorConfig =
            [synchronous |-> {}, asynchronous |-> {},
             installed_sensors |->
                [x \in installed_sensors |-> InstalledSensor("none", {}, {}, 0)]]

\* acquisition/trigger_rate of the default configuration
RateDefault == trigger_rate = trigger_rate_default

\* controller_trigger_port of the default camera configuration; both strobe
\* channels are fired.
PortsDefault ==
    /\ controller_port = [c \in Cams |-> 1]
    /\ strobe_channel = 3

\* The sync data dividers of the default configuration, one synchronous sensor.
SyncDefault ==
    /\ still_sync_divider = still_sync_data_divider
    /\ video_sync_divider = video_sync_data_divider
    /\ installed_sensors = {"ctd"}

\* The configuration file and the cameras that are found.
CoordConfig ==
    /\ found = Cams
    /\ startOk \in {Cams, {"camA"}}
    /\ wedged \in {{}, {"camB"}}
    /\ serial \in {"none", "monitoring"}
    /\ start_server \in BOOLEAN
    /\ trigger_limit \in {-1, TriggerLimit}
    /\ shut_down_on_exit \in BOOLEAN
    /\ synchronous_timeout_secs = DefaultSyncTimeout
    /\ dbState = "ok"
    /\ SyncDefault /\ NoController /\ CombinedMode /\ SensorsDefault /\ PortsDefault /\ RateDefault

\* The default configuration, all cameras working.
CoordDefault ==
    /\ startOk = Cams
    /\ wedged = {}
    /\ serial = "none"
    /\ start_server = FALSE
    /\ trigger_limit = -1
    /\ shut_down_on_exit = FALSE

\* CV2VideoCamera after __init__, with the properties ConfigureCameras sets
CamInit ==
    /\ acquiring = FALSE
    /\ total_triggers = 0 /\ n_triggered = 0
    /\ save_this_still = FALSE /\ save_this_frame = FALSE
    /\ save_image = FALSE
    /\ image_number = 0
    /\ sw_trig_timer = FALSE
    /\ commands = 0 /\ nComplete = 0
    /\ lastComplete = [k |-> 0, inList |-> FALSE, triggered |-> FALSE]
    /\ lastStill = 0

CamConfig ==
    /\ trigger_divider \in 1..MaxDivider
    /\ save_stills_divider \in 1..MaxDivider
    /\ save_video_divider \in 1..MaxDivider
    /\ save_stills \in BOOLEAN
    /\ save_video \in BOOLEAN

\* The defaults of CV2VideoCamera.__init__
CamDefault ==
    /\ trigger_divider = 1
    /\ save_stills_divider = 1
    /\ save_video_divider = 1
    /\ save_stills = TRUE
    /\ save_video = FALSE

Init == CoordInit /\ CoordConfig /\ EmptyDisk /\ CamInit /\ CamDefault

\* The run up to the teardown: the trigger scheduler, the requests of the
\* server, the stop requests and the cameras' acknowledgements.
Next ==
    \/ Setup
    \/ TriggerTimerFire
    \/ TimeoutTimerFire
    \/ TriggerCompleteEvent
    \/ AcquisitionStoppedEvent
    \/ StartTriggeringRequest
    \/ StopTriggeringRequest
    \/ StopRequest
    \/ ShutdownTimerFire

Spec == Init /\ [][Next]_vars

\* The first trigger command of a session.
FirstTrigger == lastIssued = 0 /\ TriggerTimerFire

\* A stop request of a run that ends.
ExitStop == stops < MaxExitStops /\ StopRequest

\* The run of a session that is stopped in its first trigger cycle, through
\* the teardown to the end of the event loop.
TeardownNext ==
    \/ Setup
    \/ FirstTrigger
    \/ TriggerCompleteEvent
    \/ AcquisitionStoppedEvent
    \/ ExitStop
    \/ ShutdownTimerFire
    \/ DelayTimerFire
    \/ StaleTimerFire
    \/ ServerStopped
    \/ SerialDevicesStopped

\* The trigger limit is not reached in the first cycle: no limit is set.
InitTeardown == Init /\ trigger_limit = -1

TeardownSpec == InitTeardown /\ [][TeardownNext]_vars

----------------------------------------------------------------------------
\* One CV2VideoCamera worker.  Its slots run on the event loop of its own
\* thread: a trigger command is a queued signal, the software trigger is a
\* single shot timer of 0 ms that trigger() starts, so a second command that is
\* already queued is handled before the timer of the first one fires.

camCfg == << trigger_divider, save_stills_divider, save_video_divider,
             save_stills, save_video >>

\* CV2VideoCamera.start_acquisition
CamStartAcquisition ==
    /\ ~acquiring
    /\ acquiring' = TRUE
    /\ n_triggered' = 0
    /\ UNCHANGED << total_triggers, save_this_still, save_this_frame, save_image,
                    image_number, sw_trig_timer, commands, nComplete,
                    lastComplete, lastStill, camCfg, coordVars >>

\* CV2VideoCamera.stop_acquisition
CamStopAcquisition ==
    /\ acquiring
    /\ acquiring' = FALSE
    /\ UNCHANGED << total_triggers, n_triggered, save_this_still, save_this_frame,
                    save_image, image_number, sw_trig_timer, commands, nComplete,
                    lastComplete, lastStill, camCfg, coordVars >>

\* The tests of CV2VideoCamera.trigger on the command number k.
DividerSkips(k) == (k % trigger_divider) # 0

SaveThisStill(k) == save_stills /\ ~((k % save_stills_divider) # 0)

SaveThisFrame(k) == save_video /\ ~((k % save_video_divider) # 0)

\* `len(cam_list) = 0 or self in cam_list' for the commands of the
\* coordinator: TriggerCameras always emits trigger([], ...).
CommandLists == {TRUE}

\* CV2VideoCamera.trigger(cam_list, image_number, timestamp, True, True):
\* inList is `len(cam_list) = 0 or self in cam_list'.
CamTrigger ==
    /\ commands < MaxTicks
    /\ commands' = commands + 1
    /\ \E inList \in CommandLists :
        IF ~acquiring
        THEN UNCHANGED << total_triggers, n_triggered, save_this_still,
                          save_this_frame, save_image, image_number,
                          sw_trig_timer, nComplete, lastComplete, lastStill >>
        ELSE LET k == total_triggers + 1 IN
             /\ total_triggers' = k
             /\ n_triggered' = 1
             /\ IF DividerSkips(k) \/ ~inList
                THEN /\ save_this_still' = save_stills
                     /\ save_this_frame' = save_video
                     /\ nComplete' = nComplete + 1
                     /\ lastComplete' = [k |-> k, inList |-> inList, triggered |-> FALSE]
                     /\ UNCHANGED << save_image, image_number, sw_trig_timer, lastStill >>
                ELSE /\ save_this_still' = SaveThisStill(k)
                     /\ save_this_frame' = SaveThisFrame(k)
                     /\ save_image' = (SaveThisFrame(k) \/ SaveThisStill(k))
                     /\ image_number' = k
                     /\ sw_trig_timer' = TRUE
                     /\ UNCHANGED << nComplete, lastComplete, lastStill >>
    /\ UNCHANGED << acquiring, camCfg, coordVars >>

\* sw_trig_timer.timeout -> software_trigger -> exposure_end: ok is
\* image_data['ok'] of get_image.
CamSoftwareTrigger ==
    /\ sw_trig_timer
    /\ sw_trig_timer' = FALSE
    /\ IF n_triggered = 0
       THEN UNCHANGED << n_triggered, nComplete, lastComplete, lastStill >>
       ELSE /\ n_triggered' = 0
            /\ nComplete' = nComplete + 1
            /\ lastComplete' = [k |-> image_number, inList |-> TRUE, triggered |-> TRUE]
            /\ \E ok \in BOOLEAN :
                lastStill' = IF ok /\ save_image /\ save_this_still
                             THEN image_number ELSE lastStill
    /\ UNCHANGED << acquiring, total_triggers, save_this_still, save_this_frame,
                    save_image, image_number, commands, camCfg, coordVars >>

CamNext ==
    \/ CamStartAcquisition
    \/ CamStopAcquisition
    \/ CamTrigger
    \/ CamSoftwareTrigger

InitCam ==
    /\ CoordInit /\ CoordDefault /\ EmptyDisk /\ found = Cams
    /\ synchronous_timeout_secs = DefaultSyncTimeout /\ dbState = "ok"
    /\ SyncDefault /\ NoController /\ CombinedMode /\ SensorsDefault /\ PortsDefault /\ RateDefault
    /\ CamInit /\ CamConfig

SpecCam == InitCam /\ [][CamNext]_vars

\* C9: a triggerComplete answers its trigger command k with triggered = True
\* iff k % trigger_divider = 0 and the camera is in the command's list, and a
\* still is saved for a command k only if the camera fired on it, save_stills
\* is enabled and k % save_stills_divider = 0.
C9_DividerLaw ==
    /\ lastComplete.k > 0 =>
            (lastComplete.triggered <=>
                (lastComplete.k % trigger_divider = 0 /\ lastComplete.inList))
    /\ lastStill > 0 =>
            /\ lastStill % trigger_divider = 0
            /\ save_stills
            /\ lastStill % save_stills_divider = 0

\* C40: the worker has emitted one triggerComplete for every trigger command
\* it took while acquiring, once its software trigger timer is idle, and never
\* more: total_triggers counts the commands taken while acquiring, a command
\* delivered to a worker that is not acquiring changes neither count.
C40_OneCompletePerTrigger ==
    /\ nComplete <= total_triggers
    /\ ~sw_trig_timer => nComplete = total_triggers

----------------------------------------------------------------------------
\* The trigger cycle.

\* A cycle is open: a trigger command is out, its watchdog is armed and has
\* not fired, and some camera has not reported.
CycleOpen == lastIssued > 0 /\ timeoutTimer /\ ~AllReceived(Cur)

\* C1: the trigger timer never runs TriggerCameras to open a new cycle while
\* the previous cycle is open (some received flag false, watchdog not fired).
C1_NoOverlappingCycle == [][TriggerTimerFire => ~CycleOpen]_vars

\* C2: between two runs of TriggerCameras the completion logic of
\* CamTriggerComplete runs at most once.
C2_CompletionOnce == completed <= 1

\* C3: once the watchdog has re-issued an image number, n_images is that
\* number or the next one: the attempt and its re-issues advance it by one.
C3_ReissueAdvancesByOne == timedOut => n_images <= lastIssued + 1

\* C4: n_images never decreases and the image numbers of successive trigger
\* cycles differ by exactly one.
C4_ImageNumbersConsecutive ==
    [][/\ n_images' >= n_images
       /\ (lastIssued > 0 /\ lastIssued' # lastIssued => lastIssued' = lastIssued + 1)]_vars

\* The timers of the event loop fire and the signals of the camera threads
\* that run are delivered; requests of the server and stop requests may or
\* may not come.
FairSpec ==
    /\ Spec
    /\ WF_vars(Setup)
    /\ WF_vars(TriggerTimerFire)
    /\ WF_vars(TimeoutTimerFire)
    /\ WF_vars(TriggerCompleteEvent)
    /\ WF_vars(AcquisitionStoppedEvent)
    /\ WF_vars(ShutdownTimerFire)

\* C8: while triggering stays enabled and no stop is requested, the cycle of
\* the first image eventually completes: n_images increases.
C8_WatchdogLiveness ==
    (lastIssued = 1 /\ n_images = 1) ~> (n_images > 1 \/ ~isTriggering \/ stops > 0)

\* The trigger limit is set and this_images has passed it.
LimitReached == trigger_limit > 0 /\ this_images > trigger_limit

\* C13: with a trigger limit L > 0, the run of the completion logic that takes
\* this_images past L calls StopAcquisition(exit_app=True) and starts no
\* trigger timer, and no trigger command with a new image number is issued
\* after it; without a limit a run of the completion logic never stops the
\* acquisition.
C13_TriggerLimit ==
    /\ [][(completed' = completed + 1 /\ ~LimitReached /\ LimitReached') =>
            (this_images' = trigger_limit + 1 /\ stops' = stops + 1
             /\ isExiting' /\ ~triggerTimer' /\ ~isTriggering')]_vars
    /\ [][LimitReached => lastIssued' <= lastIssued]_vars
    /\ [][(completed' = completed + 1 /\ trigger_limit <= 0) =>
            stops' = stops]_vars

----------------------------------------------------------------------------
\* Two cameras, all dividers 1: a first cycle that both cameras complete in
\* time and a second one in which the watchdog fires.

InitScenario ==
    /\ CoordInit /\ CoordDefault /\ EmptyDisk /\ found = Cams
    /\ synchronous_timeout_secs = DefaultSyncTimeout /\ dbState = "ok"
    /\ SyncDefault /\ NoController /\ CombinedMode /\ SensorsDefault /\ PortsDefault /\ RateDefault
    /\ CamInit /\ CamDefault

\* the watchdog fires in the cycle of image 2
Cycle2Timeout == lastIssued = 2 /\ TimeoutTimerFire

ScenarioNext ==
    \/ Setup
    \/ TriggerTimerFire
    \/ Cycle2Timeout
    \/ TriggerCompleteEvent
    \/ SensorDataEvent
    \/ ClockTick

SpecScenario == InitScenario /\ [][ScenarioNext]_vars

\* C12: starting from n_images = 1, when both cameras have completed cycle 1,
\* n_images is 2 and the trigger timer is armed; the watchdog firing in
\* cycle 2 re-issues image number 2 and leaves n_images at 2; and when both
\* cameras have then completed, n_images is 3.
C12_EndToEndScenario ==
    /\ [](started /\ lastIssued = 0 => n_images = 1)
    /\ []((lastIssued = 1 /\ completed > 0) =>
            (completed = 1 /\ n_images = 2 /\ triggerTimer))
    /\ [][Cycle2Timeout =>
            (lastIssued' = 2 /\ n_images' = 2 /\ timedOut' /\ timeoutTimer'
             /\ \A c \in Cams : ~received'[c])]_vars
    /\ []((lastIssued = 2 /\ timedOut /\ completed = 0) => n_images = 2)
    /\ []((lastIssued = 2 /\ timedOut /\ completed = 1) =>
            (n_images = 3 /\ AllReceived(Cur) /\ triggerTimer))

\* Cycle 2 was re-issued after camA had answered, both cameras have answered
\* since, and n_images is 3.
C12_Witness ==
    /\ lastIssued = 2 /\ timedOut /\ completed = 1 /\ n_images = 3
    /\ pending["camA"] = << >> /\ pending["camB"] = << 2 >>

----------------------------------------------------------------------------
\* Restarts on the same output directory (combined mode).

----------------------------------------------------------------------------
\* The power and control board: one camera, the controller in use.

InitCtl ==
    /\ CoordInit /\ EmptyDisk
    /\ found = {"camA"} /\ startOk = Cams /\ wedged = {}
    /\ serial = "none" /\ start_server = FALSE
    /\ shut_down_on_exit \in BOOLEAN
    /\ trigger_limit = -1
    /\ synchronous_timeout_secs = DefaultSyncTimeout
    /\ dbState = "ok"
    /\ SyncDefault /\ CombinedMode /\ SensorsDefault /\ PortsDefault /\ RateDefault
    /\ use_controller = TRUE
    /\ always_trigger_at_start \in BOOLEAN
    /\ hw_triggered_cameras = {}
    /\ CamInit /\ CamDefault

\* The board reports states in any order; the run is followed from the setup
\* through the stop requests to the end of the event loop.
CtlNext ==
    \/ Setup
    \/ ControllerStateEvent
    \/ FirstTrigger
    \/ TriggerCompleteEvent
    \/ AcquisitionStoppedEvent
    \/ StopRequest
    \/ ControllerStoppedEvent
    \/ DelayTimerFire

SpecCtl == InitCtl /\ [][CtlNext]_vars

\* The same run up to the teardown.
EnableNext ==
    \/ Setup
    \/ ControllerStateEvent
    \/ FirstTrigger
    \/ TriggerCompleteEvent
    \/ AcquisitionStoppedEvent
    \/ ExitStop

SpecEnable == InitCtl /\ [][EnableNext]_vars

\* The trigger timer fires when it is armed and the event loop runs; nothing
\* else is assumed to happen.
CtlFair == SpecEnable /\ WF_vars(FirstTrigger)

\* The tracked state changes to a shutdown state.
ShutdownStateChange ==
    /\ controllerCurrentState' # controllerCurrentState
    /\ controllerCurrentState' >= FORCE_ON_REMOVED

\* The first part of C14: what the handler does on the change.
C14_OnChange ==
    [][ShutdownStateChange =>
            /\ ~shutdownTimer'
            /\ shutdownAcks' = shutdownAcks + 1
            /\ stops' = stops + 1
            /\ isExiting' /\ shutdownOnExit']_vars

\* The second part of C14: a run in which the board ordered the shutdown ends
\* with the OS shutdown command issued.
C14_PowerOff == (shutdownAcks > 0 /\ quit) => powerOff

\* C14: on a change to a state >= FORCE_ON_REMOVED the shutdown timer is
\* cancelled, the shutdown is acknowledged and StopAcquisition(exit_app=True,
\* shutdown_on_exit=True) is called, so that the run ends with the OS shutdown
\* command issued, whatever shut_down_on_exit is and whatever other stop
\* request is made.
C14_ControllerShutdown == C14_OnChange /\ []C14_PowerOff

\* The tracked state is FORCED_ON and always_trigger_at_start is not set.
DownloadMode ==
    /\ controllerCurrentState = FORCED_ON
    /\ ~always_trigger_at_start

\* C15: in download mode the triggering is withheld: isTriggering is false and
\* no trigger command is issued, whatever state the board was in before.
C15_DownloadMode ==
    /\ [](DownloadMode => ~isTriggering)
    /\ [][DownloadMode => lastIssued' = lastIssued]_vars

\* The tracked state changes to a state that starts the triggering.
EnableChange ==
    /\ controllerCurrentState' # controllerCurrentState
    /\ \/ controllerCurrentState' = FORCED_ON /\ always_trigger_at_start
       \/ controllerCurrentState' = AT_DEPTH
       \/ controllerCurrentState' = PRESSURE_SW_CLOSED

C17_ReentryNoOp ==
    (controllerThread = "running" /\ ~controllerStarting) =>
        ControllerStateChanged(Cur, controllerCurrentState) = Cur

\* the tracked state is AT_DEPTH and the timer that change armed has fired, and
\* the tracked state is a shutdown state and the cameras were told to stop:
\* handling the change again would arm the timer, would stop again
C17_Witness ==
    /\ controllerThread = "running" /\ ~controllerStarting
    /\ \/ controllerCurrentState = AT_DEPTH /\ ~triggerTimer /\ lastIssued = 1
       \/ controllerCurrentState = LOW_BATT /\ stops = 1 /\ shutdownAcks = 1

\* StopAcquisition is called in this step while the coordinator holds cameras.
StopCalled == stops' = stops + 1 /\ cameras # {}

\* the part of C23 about the timers
C23_TimersStopped == [][StopCalled => (~triggerTimer' /\ ~timeoutTimer')]_vars

\* the part of C23 about the stop command
C23_StopCommandSent ==
    [][StopCalled =>
        \A c \in cameras : camAcquiring[c] =>
            (stopPending'[c] = stopPending[c] + 1 /\ ~camAcquiring'[c])]_vars

\* C23: every call of StopAcquisition made while the coordinator holds
\* cameras stops the trigger timer and the watchdog and sends the stop command
\* to every camera that was started, also before the first message of the
\* board.
C23_StopPhaseOne == C23_TimersStopped /\ C23_StopCommandSent

----------------------------------------------------------------------------
\* OpenDatabase over the output directory of earlier runs: the database file
\* opens or not, an alternate opens or none does, in either output mode.

InitOpen ==
    /\ CoordInit
    /\ images \in [{"main", "alt"} -> {{}, {1}, 1..MaxImages}]
    /\ files \in SUBSET (1..MaxImages)
    /\ sensor_data = {}
    /\ maxIssued = 0 /\ sessions = 1
    /\ dbState \in {"ok", "corrupt", "unusable"}
    /\ output_mode \in {"combined", "separate"}
    /\ first_alternate \in {0, 1, MAX_DB_ALTERNATES - 1}
    /\ found = {"camA"}
    /\ CoordDefault
    /\ synchronous_timeout_secs = DefaultSyncTimeout
    /\ SyncDefault /\ NoController /\ SensorsDefault /\ PortsDefault /\ RateDefault
    /\ CamInit /\ CamDefault

\* The setup, which opens the database, and the first trigger cycle.
OpenNext ==
    \/ Setup
    \/ FirstTrigger
    \/ TriggerCompleteEvent

SpecOpen == InitOpen /\ [][OpenNext]_vars

\* max(file image number) + 1, and 1 without image files
NumberFromFiles == IF files = {} THEN 1 ELSE MaxOf(files) + 1

\* C18: OpenDatabase ends with n_images >= 1.  When the database file does not
\* open in combined mode, at most MAX_DB_ALTERNATES alternates are tried and
\* none after the first that opens.  When no alternate opens, or the file does
\* not open in separate mode, use_db is false and n_images is 1 + the highest
\* image number in the names of the image files (1 without files).
C18_PersistenceFallback ==
    started =>
        /\ startNumber >= 1 /\ n_images >= startNumber
        /\ db_tries <= MAX_DB_ALTERNATES
        /\ dbState = "ok" => (use_db /\ db_tries = 0)
        /\ (dbState = "corrupt" /\ output_mode = "combined") =>
                (use_db /\ dbFile = "alt" /\ db_tries = first_alternate + 1)
        /\ (dbState = "unusable" /\ output_mode = "combined") =>
                (~use_db /\ db_tries = MAX_DB_ALTERNATES
                    /\ startNumber = NumberFromFiles)
        /\ (dbState # "ok" /\ output_mode = "separate") =>
                (~use_db /\ db_tries = 0 /\ startNumber = NumberFromFiles)

\* no alternate opened, image files up to number 2 exist, and the acquisition
\* has issued the trigger command of image 3
C18_Witness ==
    /\ dbState = "unusable" /\ output_mode = "combined"
    /\ db_tries = MAX_DB_ALTERNATES /\ ~use_db
    /\ files = {1, 2} /\ startNumber = 3
    /\ isAcquiring /\ lastIssued = 3

----------------------------------------------------------------------------
\* Hardware triggering: two cameras, one or both of them triggered by the
\* pulse of the controller, the system at depth.

InitHw ==
    /\ CoordInit /\ EmptyDisk
    /\ found = Cams
    /\ CoordDefault
    /\ synchronous_timeout_secs = DefaultSyncTimeout
    /\ dbState = "ok"
    /\ SyncDefault /\ CombinedMode /\ SensorsDefault /\ PortsDefault /\ RateDefault
    /\ use_controller = TRUE
    /\ always_trigger_at_start = FALSE
    /\ hw_triggered_cameras \in {Cams, {"camA"}}
    /\ CamInit /\ CamDefault

\* the board reports AT_DEPTH
BoardAtDepth == ControllerStateEvent /\ controllerCurrentState' = AT_DEPTH

HwNext ==
    \/ Setup
    \/ BoardAtDepth
    \/ TriggerTimerFire
    \/ TimeoutTimerFire
    \/ HWTriggerReadyEvent
    \/ TriggerCompleteEvent

SpecHw == InitHw /\ [][HwNext]_vars

\* C19: between two runs of TriggerCameras controller.trigger is called at most
\* once, and only when the triggerReady of every hardware triggered camera
\* that answers the latest TriggerCameras has been handled.
C19_HardwareTriggerBarrier ==
    [][hwTriggers' = hwTriggers + 1 =>
        (hwTriggers = 0 /\ readyNow' = hw_triggered_cameras \cap cameras)]_vars

----------------------------------------------------------------------------
\* The strobes and the trigger ports: two cameras, one or both of them
\* triggered by the pulse of the controller, on the same or on different
\* trigger ports, reporting any of the exposures, in HDR mode or not.  The
\* cycles are followed as long as every camera answers: the watchdog does
\* not re-issue a cycle.  The trigger limit ends the run after two cycles.

InitStrobe ==
    /\ CoordInit /\ EmptyDisk
    /\ found = Cams
    /\ startOk = Cams /\ wedged = {}
    /\ serial = "none" /\ start_server = FALSE
    /\ trigger_limit = 1
    /\ shut_down_on_exit = FALSE
    /\ synchronous_timeout_secs = DefaultSyncTimeout
    /\ dbState = "ok"
    /\ SyncDefault /\ CombinedMode /\ SensorsDefault
    /\ use_controller = TRUE
    /\ always_trigger_at_start = FALSE
    /\ hw_triggered_cameras \in {Cams, {"camA"}}
    /\ controller_port \in {[c \in Cams |-> 1],
                            [c \in Cams |-> IF c = "camA" THEN 1 ELSE 2]}
    /\ strobe_channel \in {1, 2, 3}
    /\ RateDefault
    /\ CamInit /\ CamDefault

\* a camera's triggerReady signal is delivered, with any of the exposures
ExposureReadyEvent == TriggerReadyEvent(Exposures)

StrobeNext ==
    \/ Setup
    \/ BoardAtDepth
    \/ TriggerTimerFire
    \/ ExposureReadyEvent
    \/ HdrNextExposure
    \/ TriggerCompleteEvent

SpecStrobe == InitStrobe /\ [][StrobeNext]_vars

\* HWTriggerReady handles a triggerReady of camera c with exposure_us <= 0 in
\* this step.
ZeroReady(c) ==
    /\ Len(readyReports') = Len(readyReports) + 1
    /\ readyReports'[Len(readyReports')].cam = c
    /\ readyReports'[Len(readyReports')].exposure_us <= 0

\* Camera c is the last one outstanding in the cycle.
LastOutstanding(c) ==
    /\ c \in DOMAIN received /\ ~received[c]
    /\ \A k \in (DOMAIN received) \ {c} : received[k]

\* C28, first part: HWTriggerReady with exposure_us <= 0 does not enable a
\* trigger port.
C28_PortNotEnabled ==
    [][\A c \in Cams : ZeroReady(c) => ctcTriggerChannel' = ctcTriggerChannel]_vars

\* C28, second part: HWTriggerReady with exposure_us <= 0 sets received of
\* the camera in the same step.
C28_ReceivedAtOnce ==
    [][\A c \in Cams : ZeroReady(c) => (c \in DOMAIN received' /\ received'[c])]_vars

\* C28, third part: when the camera was the last one outstanding, the
\* completion logic runs in the step of HWTriggerReady.
C28_LastOutstandingCompletes ==
    [][\A c \in Cams :
        (ZeroReady(c) /\ LastOutstanding(c)) => completed' = completed + 1]_vars

\* C28: a triggerReady with exposure_us <= 0 does not enable the trigger port
\* of the camera and sets received of the camera at once; when that camera
\* was the last one outstanding in the cycle, the completion logic runs then,
\* without the timeout of the watchdog.
C28_ZeroExposureExclusion ==
    C28_PortNotEnabled /\ C28_ReceivedAtOnce /\ C28_LastOutstandingCompletes

\* The triggerReady signals a call of controller.trigger rests on: the ones
\* handled in the cycle up to the call.
ReportsOfTrigger == SubSeq(readyReports, 1, lastTrigger.nreports)

\* The longest exposure of the reports.
MaxExposureOf(reports) ==
    LET e == {reports[i].exposure_us : i \in 1..Len(reports)}
    IN  CHOOSE x \in e : \A y \in e : y <= x

\* C29: in a call of controller.trigger the pulse width of every enabled
\* strobe channel is the maximum exposure_us of the hardware triggered cameras
\* that reported ready in the cycle, and trigger port p (1 or 2) is enabled
\* if and only if a camera configured on port p reported exposure_us > 0 in
\* the cycle.
C29_StrobeParameters ==
    lastTrigger.called =>
        /\ strobe_channel # 2 =>
                lastTrigger.strobe1Exp = MaxExposureOf(ReportsOfTrigger)
        /\ strobe_channel # 1 =>
                lastTrigger.strobe2Exp = MaxExposureOf(ReportsOfTrigger)
        /\ \A p \in {1, 2} :
                lastTrigger.trig[p] <=>
                    \E i \in 1..lastTrigger.nreports :
                        /\ controller_port[readyReports[i].cam] = p
                        /\ readyReports[i].exposure_us > 0

\* C29 witness: controller.trigger was called after two cameras on different
\* ports reported, the first the longer exposure and the second none.
C29_Witness ==
    /\ lastTrigger.called /\ lastTrigger.nreports = 2
    /\ readyReports[1].exposure_us = exposure_us_default
    /\ readyReports[2].exposure_us = 0
    /\ readyReports[1].cam # readyReports[2].cam
    /\ controller_port[readyReports[1].cam] # controller_port[readyReports[2].cam]
    /\ lastTrigger.trig = <<TRUE, FALSE>>
    /\ lastTrigger.strobe1Exp = exposure_us_default

\* C30: every call of controller.trigger of a cycle, the one of each HDR
\* sub-exposure, comes only after every hardware triggered camera that
\* reports ready for the sub-exposure has done so: no triggerReady is still
\* in flight at the call, the readiness recorded for an earlier sub-exposure
\* does not stand for it.
C30_HdrBarrier ==
    lastTrigger.called => lastTrigger.waiting = {}

----------------------------------------------------------------------------
\* The requests of a client: one of the two cameras is found, the server runs.

InitParam ==
    /\ CoordInit /\ EmptyDisk
    /\ found = {"camA"} /\ startOk = Cams /\ wedged = {}
    /\ serial = "none" /\ start_server = TRUE
    /\ shut_down_on_exit = FALSE
    /\ trigger_limit = -1
    /\ synchronous_timeout_secs = DefaultSyncTimeout
    /\ dbState = "ok"
    /\ SyncDefault /\ NoController /\ CombinedMode /\ SensorsDefault /\ PortsDefault /\ RateDefault
    /\ CamInit /\ CamDefault

ParamNext ==
    \/ Setup
    \/ ParameterRequest
    \/ TriggerTimerFire
    \/ TriggerCompleteEvent
    \/ AcquisitionStoppedEvent

SpecParam == InitParam /\ [][ParamNext]_vars

\* The last request handled was answered by one parameterChanged, which for
\* start_triggering and stop_triggering carries isTriggering.  (No other
\* event of SpecParam changes isTriggering once the server runs.)
Acknowledged(parameters) ==
    paramRequest \in parameters =>
        /\ paramEmits = 1
        /\ paramRequest \in {"start_triggering", "stop_triggering"} =>
                paramValue = IsTriggeringStr(Cur)

\* C20: a request for start_triggering, stop_triggering, stop_acquisition or
\* the gain or exposure of a camera the coordinator holds is answered by
\* exactly one parameterChanged, which for start_triggering and
\* stop_triggering carries the resulting isTriggering, whether or not the
\* value changed or the set succeeded.
C20_ParameterAcknowledged == Acknowledged(AcquisitionParameters)

\* the part of C20 about start_triggering and stop_triggering
C20_TriggeringAcknowledged == Acknowledged({"start_triggering", "stop_triggering"})

\* the part of C20 about stop_acquisition
C20_StopAcknowledged == Acknowledged({"stop_acquisition"})

\* the part of C20 about the gain and the exposure of a camera
C20_CameraAcknowledged == Acknowledged({"gain", "exposure"})

\* The application is started again: a new AcquisitionBase is constructed over
\* the disk that the earlier run left.
Boot(s) ==
    [s EXCEPT
        !.started = FALSE, !.cameras = {}, !.received = NoReceived,
        !.isTriggering = FALSE, !.isAcquiring = FALSE,
        !.isExiting = FALSE, !.shutdownOnExit = FALSE,
        !.triggerTimer = FALSE, !.timeoutTimer = FALSE, !.shutdownTimer = FALSE,
        !.n_images = 1, !.this_images = 1,
        !.acqisition_teardown_tries = 0,
        !.serial_threads_finished = FALSE, !.server_finished = FALSE,
        !.delayTimer = "off", !.staleTimers = [poll |-> 0, final |-> 0],
        !.quit = FALSE,
        !.pending = [c \in Cams |-> << >>],
        !.stopPending = [c \in Cams |-> 0],
        !.camAcquiring = [c \in Cams |-> FALSE],
        !.use_db = TRUE, !.dbFile = "none",
        !.imgDelivered = [c \in Cams |-> FALSE],
        !.saved_last_still = FALSE, !.saved_last_frame = FALSE,
        !.n_saved_stills = 0, !.n_saved_frames = 0,
        !.trig_time = 0,
        !.syncdSensorData = [x \in Sensors |-> NoReading],
        !.sync_trigger_messages = {},
        !.cacheAtTrigger = [x \in Sensors |-> NoReading],
        !.startNumber = 1,
        !.controllerThread = "none",
        !.controllerStarting = FALSE, !.controllerCurrentState = 0,
        !.shutdownAcks = 0, !.powerOff = FALSE,
        !.enableOutcome = "none", !.stateMsgs = 0,
        !.db_tries = 0,
        !.paramRequest = "none", !.paramEmits = 0, !.paramValue = "none",
        !.readyToTrigger = NoReceived,
        !.readyPending = [c \in Cams |-> << >>],
        !.hwPulsed = [c \in Cams |-> 0],
        !.readyNow = {}, !.hwTriggers = 0,
        !.ctcTriggerChannel = <<FALSE, FALSE>>, !.maxExposure = 0,
        !.HWTriggerHDR = NoReceived,
        !.lastTrigger = NoTrigger,
        !.readyReports = << >>, !.readySincePulse = {},
        !.hdrDone = [c \in Cams |-> 0],
        !.elapsed_time_us = 0, !.next_int_time_ms = 0,
        !.cam_ok = FALSE, !.disk_ok = FALSE,
        !.readySignals = 0, !.shutdownInterval = 0,
        !.teardowns = 0, !.closedWrites = 0, !.db_is_open = FALSE,
        !.triggerSignal = 0,
        !.async_data = {}, !.lastDatum = NoDatum,
        !.lastIssued = 0, !.timedOut = FALSE, !.completed = 0,
        !.stops = 0, !.polls = 0,
        !.maxIssued = IF s.lastIssued > @ THEN s.lastIssued ELSE @,
        !.sessions = @ + 1]

\* The database file as the next run finds it: a file that opened may have
\* become corrupt, and then the alternates may fail too.
LaterDbStates(d) ==
    CASE d = "ok" -> {"ok", "corrupt"}
      [] d = "corrupt" -> {"corrupt", "unusable"}
      [] OTHER -> {"unusable"}

\* the event loop has ended and the application is started again
Restart ==
    /\ quit /\ sessions < MaxSessions
    /\ \E d \in LaterDbStates(dbState) :
        Commit([Boot(Cur) EXCEPT !.dbState = d])

InitDb ==
    /\ CoordInit /\ EmptyDisk
    /\ found = {"camA"} /\ startOk = Cams /\ wedged = {}
    /\ serial = "none" /\ start_server = FALSE /\ shut_down_on_exit = FALSE
    /\ trigger_limit = TriggerLimit
    /\ synchronous_timeout_secs = DefaultSyncTimeout
    /\ dbState \in {"ok", "unusable"}
    /\ SyncDefault /\ NoController /\ CombinedMode /\ SensorsDefault /\ PortsDefault /\ RateDefault
    /\ CamInit /\ CamDefault

\* Sessions of one camera that end at the trigger limit, one after the other.
DbNext ==
    \/ Setup
    \/ TriggerTimerFire
    \/ ImageAcquiredEvent
    \/ TriggerCompleteEvent
    \/ AcquisitionStoppedEvent
    \/ DelayTimerFire
    \/ Restart

SpecDb == InitDb /\ [][DbNext]_vars

\* C5: the image number a restarted application starts at is greater than
\* every image number that a trigger command of an earlier run carried.
C5_NoReuseAcrossRestarts ==
    (started /\ sessions > 1) => startNumber > maxIssued

----------------------------------------------------------------------------
\* Synchronous sensor data.

InitSensor ==
    /\ CoordInit /\ EmptyDisk
    /\ found = {"camA"} /\ startOk = Cams /\ wedged = {}
    /\ serial = "none" /\ start_server = FALSE /\ shut_down_on_exit = FALSE
    /\ trigger_limit = TriggerLimit
    /\ synchronous_timeout_secs \in {-1, DefaultSyncTimeout}
    /\ dbState \in {"ok", "unusable"}
    /\ SyncDefault /\ NoController /\ CombinedMode /\ SensorsDefault /\ PortsDefault /\ RateDefault
    /\ CamInit /\ CamDefault

\* A session of one camera with a synchronous sensor, up to the stop that
\* the trigger limit brings.
SensorNext ==
    \/ Setup
    \/ TriggerTimerFire
    \/ TimeoutTimerFire
    \/ TriggerCompleteEvent
    \/ StillAcquiredEvent
    \/ SensorDataEvent
    \/ ClockTick

SpecSensor == InitSensor /\ [][SensorNext]_vars

\* The readings the last TriggerCameras found in the cache, fresh at its
\* trigger time, as rows of its image number.
FreshAtTrigger ==
    { << lastIssued, cacheAtTrigger[x], x >> :
        x \in { y \in Sensors :
                    /\ cacheAtTrigger[y] # NoReading
                    /\ \/ synchronous_timeout_secs < 0
                       \/ /\ trig_time - cacheAtTrigger[y] <= synchronous_timeout_secs
                          /\ cacheAtTrigger[y] - trig_time <= synchronous_timeout_secs } }

\* The cached reading of sensor x is age seconds old at the last trigger.
AgeAtTrigger(x, age) ==
    /\ lastIssued > 0 /\ cacheAtTrigger[x] # NoReading
    /\ trig_time = cacheAtTrigger[x] + age

\* C10: with the database in use, the rows staged at a trigger are exactly the
\* cached readings with synchronous_timeout_secs < 0 or
\* |trig_time - t| <= synchronous_timeout_secs (with a timeout of 5 s a reading
\* of time t is staged at the trigger time t + 4 and not at t + 6), and a row
\* is only ever written from the rows staged for the cycle; without the
\* database nothing is staged or written.
C10_SyncFreshness ==
    /\ [](lastIssued > 0 =>
            sync_trigger_messages = IF use_db THEN FreshAtTrigger ELSE {})
    /\ [](\A x \in Sensors :
            (use_db /\ synchronous_timeout_secs = 5) =>
                /\ AgeAtTrigger(x, 4) =>
                      << lastIssued, cacheAtTrigger[x], x >> \in sync_trigger_messages
                /\ AgeAtTrigger(x, 6) => sync_trigger_messages = {})
    /\ [][sensor_data' \subseteq sensor_data \cup sync_trigger_messages]_vars

\* With a timeout of 5 s, a reading of time t was staged and written for
\* image 1 and, at the trigger of image 2 at the time t + 6, it is not staged.
C10_Witness ==
    /\ synchronous_timeout_secs = 5 /\ use_db
    /\ \E x \in Sensors :
        /\ << 1, cacheAtTrigger[x], x >> \in sensor_data
        /\ lastIssued = 2
        /\ AgeAtTrigger(x, 6)
        /\ sync_trigger_messages = {}

\* the part of C25 about the cache: a run of TriggerCameras leaves no reading
\* in the cache that it staged
C25_CacheConsumed ==
    [][(TriggerTimerFire \/ TimeoutTimerFire) =>
        \A r \in sync_trigger_messages' : syncdSensorData'[r[3]] # r[2]]_vars

\* the part of C25 about the rows: the rows staged or written for one reading
\* (a sensor reports once in a run) carry one image number
C25_OneImagePerReading ==
    \A r1, r2 \in sensor_data \cup sync_trigger_messages :
        (r1[2] = r2[2] /\ r1[3] = r2[3]) => r1[1] = r2[1]

\* C25: TriggerCameras moves the cached readings into the pending write list:
\* after it the cache does not hold the readings it staged, and a reading that
\* arrived once is staged and written for at most one image number.
C25_SnapshotConsumed == C25_CacheConsumed /\ []C25_OneImagePerReading

----------------------------------------------------------------------------
\* The datagrams of two installed sensors: one with a type and header lists of
\* its own, both with the same logging interval.

InitDatagram ==
    /\ CoordInit /\ EmptyDisk
    /\ found = {"camA"} /\ CoordDefault
    /\ synchronous_timeout_secs = DefaultSyncTimeout
    /\ dbState \in {"ok", "unusable"}
    /\ still_sync_divider = still_sync_data_divider
    /\ video_sync_divider = video_sync_data_divider
    /\ installed_sensors = Sensors
    /\ NoController /\ CombinedMode /\ PortsDefault /\ RateDefault
    /\ default_is_synchronous \in BOOLEAN
    /\ sensorConfig \in
            { [synchronous |-> {}, asynchronous |-> {},
               installed_sensors |->
                  [x \in Sensors |->
                      IF x = "ctd" THEN InstalledSensor(type, sh, ah, ms)
                      ELSE InstalledSensor("none", {}, {}, ms)]] :
              type \in {"none", "synced", "async"},
              sh \in {{}, {"$HDG"}}, ah \in {{}, {"$DPT"}},
              ms \in {0, 500, 1500} }
    /\ CamInit /\ CamDefault

DatagramNext ==
    \/ Setup
    \/ SensorDatagramEvent

SpecDatagram == InitDatagram /\ [][DatagramNext]_vars

\* logging_interval_ms and last_write of a sensor
LoggingInterval(x) == sensorConfig.installed_sensors[x].logging_interval_ms

LastWrite(x) == sensorConfig.installed_sensors[x].last_write

\* The last datagram was handled as asynchronous with the database in use, from
\* a sensor with a logging interval.
RateLimited ==
    /\ lastDatum.class = "async" /\ use_db
    /\ LoggingInterval(lastDatum.sensor) > 0

\* the part of C26 about the decision
C26_WrittenIffDue ==
    RateLimited =>
        (lastDatum.written <=>
            \/ lastDatum.prev_write = NoReading
            \/ lastDatum.rx_time - lastDatum.prev_write
                    >= LoggingInterval(lastDatum.sensor))

\* the part of C26 about last_write
C26_LastWriteOnWrite ==
    [][\A x \in Sensors :
        (started /\ LastWrite(x)' # LastWrite(x)) =>
            (lastDatum'.n = lastDatum.n + 1 /\ lastDatum'.sensor = x
             /\ lastDatum'.written /\ LastWrite(x)' = lastDatum'.rx_time)]_vars

\* C26: an asynchronous datagram of a sensor with logging_interval_ms = I > 0,
\* received at the time t, is written iff the sensor has no earlier write or
\* t - last_write >= I milliseconds, and last_write changes only when a
\* datagram is written.
C26_AsyncRateLimit == []C26_WrittenIffDue /\ C26_LastWriteOnWrite

\* The class the configuration of the sensor itself gives a header: its
\* header lists, else its type, else the default.
ClassOfSensor(sensor_id, header) ==
    LET cfg == sensorConfig.installed_sensors[sensor_id] IN
    IF header \in cfg.synced_headers THEN "sync"
    ELSE IF header \in cfg.async_headers THEN "async"
    ELSE IF cfg.type = "synced" THEN "sync"
    ELSE IF cfg.type = "async" THEN "async"
    ELSE IF default_is_synchronous THEN "sync" ELSE "async"

\* The last datagram came from an installed sensor and was not ignored.
Classified == lastDatum.class \in {"sync", "async"}

\* the part of C27 about the two classes: a datagram that was cached was not
\* written
C27_OneClass == (Classified /\ lastDatum.class = "sync") => ~lastDatum.written

\* the part of C27 about the selection
C27_ClassPerSensor ==
    Classified => lastDatum.class = ClassOfSensor(lastDatum.sensor, lastDatum.header)

\* C27: a datagram of an installed sensor with a header that is not ignored is
\* handled as one class, cached as synchronous or written as asynchronous, and
\* the class is the one that the header lists and the type of the sensor it
\* comes from give, the default otherwise.
C27_SensorClassification == C27_OneClass /\ C27_ClassPerSensor

----------------------------------------------------------------------------
\* The flush of the staged sync data.

InitFlush ==
    /\ CoordInit /\ EmptyDisk
    /\ found = {"camA"} /\ startOk = Cams /\ wedged = {}
    /\ serial = "none" /\ start_server = FALSE /\ shut_down_on_exit = FALSE
    /\ trigger_limit = TriggerLimit
    /\ synchronous_timeout_secs = -1
    /\ dbState \in {"ok", "unusable"}
    /\ still_sync_divider \in 1 .. MaxDivider
    /\ video_sync_divider \in 1 .. MaxDivider
    /\ installed_sensors = Sensors /\ NoController /\ CombinedMode /\ SensorsDefault /\ PortsDefault /\ RateDefault
    /\ CamInit /\ CamDefault

\* A session of one camera that saves stills and video frames, with two
\* synchronous sensors, up to the stop that the trigger limit brings.
FlushNext ==
    \/ Setup
    \/ TriggerTimerFire
    \/ TimeoutTimerFire
    \/ FrameAcquiredEvent
    \/ TriggerCompleteEvent
    \/ SensorDataEvent

SpecFlush == InitFlush /\ [][FlushNext]_vars

\* A still was saved in this cycle and the count of saved stills is a multiple
\* of its divider, or the same for the video frames.
FlushDue ==
    \/ saved_last_still /\ n_saved_stills % still_sync_divider = 0
    \/ saved_last_frame /\ n_saved_frames % video_sync_divider = 0

CycleSaved ==
    \/ saved_last_still
    \/ saved_last_frame
    \/ use_db /\ dbFile # "none" /\ n_images \in images[dbFile]

\* C21: a run of the completion logic increments n_images and this_images by
\* one when the completed cycle was saved or logged, and leaves them unchanged
\* when nothing was saved or logged.
C21_CountSavedCycles ==
    [][completed' = completed + 1 =>
        IF CycleSaved
        THEN n_images' = n_images + 1 /\ this_images' = this_images + 1
        ELSE n_images' = n_images /\ this_images' = this_images]_vars

\* the part of C21 about the cycles that were saved or logged
C21_SavedCycleCounted ==
    [][(completed' = completed + 1 /\ CycleSaved) =>
        (n_images' = n_images + 1 /\ this_images' = this_images + 1)]_vars

----------------------------------------------------------------------------
\* The teardown.

\* C6: counted in firings of the delay timer of the latest AcqisitionTeardown,
\* AcqisitionTeardown2 has run by the firing number TEARDOWN_TRIES + 1, whether
\* or not the serial layer and the server report: the firing number
\* TEARDOWN_TRIES is the last run of AcqisitionTeardownTimeout, which hands
\* over to AcqisitionTeardown2 with one more 500 ms timer.
C6_TeardownBound ==
    /\ polls <= TEARDOWN_TRIES + 1
    /\ (polls = TEARDOWN_TRIES + 1 => quit)

\* The teardown bailed out: neither subsystem reported and the event loop
\* was quit by the firing number TEARDOWN_TRIES + 1.
C6_Witness ==
    /\ quit /\ polls = TEARDOWN_TRIES + 1
    /\ ~server_finished /\ ~serial_threads_finished
    /\ acqisition_teardown_tries = TEARDOWN_TRIES

\* C6 as stated: AcqisitionTeardown2 has run after TEARDOWN_TRIES firings.
C6_BoundAsStated == polls >= TEARDOWN_TRIES => quit

\* AcqisitionTeardown runs in this step: the references to the cameras are
\* dropped.
TeardownStarts == cameras # {} /\ cameras' = {}

\* C22: after StopAcquisition(exit_app=True) with the cameras acquiring,
\* AcqisitionTeardown starts only when the acquisitionStopped of every
\* camera the coordinator holds, sent in answer to the stop command, has been
\* handled, whatever triggerComplete signals are in flight.
C22_TeardownAfterAllStopped ==
    [][(TeardownStarts /\ isAcquiring /\ stops' > 0) =>
        \A c \in cameras : c \notin wedged /\ stopPending'[c] = 0]_vars

\* The server has reported that it stopped, or was never started.
ServerDone == server \in {"none", "stopped"}

\* The serial layer has reported that it stopped, or no device was monitored.
SerialDone == serial \in {"none", "stopped"}

\* AcqisitionTeardownTimeout runs in this step, on the timer of the latest
\* AcqisitionTeardown.
TeardownPoll == delayTimer = "poll" /\ polls' = polls + 1

\* C24: a poll of the teardown hands over to AcqisitionTeardown2 iff the server
\* and the serial layer are both finished, a subsystem that was never started
\* counting as finished, or the poll is number TEARDOWN_TRIES.
C24_EarlyCompletion ==
    [][TeardownPoll =>
        (delayTimer' = "final" <=>
            \/ ServerDone /\ SerialDone
            \/ acqisition_teardown_tries' >= TEARDOWN_TRIES)]_vars

\* The timers of the event loop fire and the signals of the camera threads
\* that run are delivered; the server and the serial layer may never report.
TeardownFair ==
    /\ TeardownSpec
    /\ WF_vars(Setup)
    /\ WF_vars(FirstTrigger)
    /\ WF_vars(TriggerCompleteEvent)
    /\ WF_vars(AcquisitionStoppedEvent)
    /\ WF_vars(ShutdownTimerFire)
    /\ WF_vars(DelayTimerFire)
    /\ WF_vars(StaleTimerFire)

\* C7: after a call of StopAcquisition(exit_app=True) the event loop is
\* eventually quit.
C7_ShutdownTerminates == (stops > 0 /\ isExiting) ~> quit

----------------------------------------------------------------------------
\* The delay to the next trigger: one camera, the server running, any of the
\* trigger rates, with and without a trigger limit; a cycle takes any of the
\* times in ElapsedUs.

InitDelay ==
    /\ CoordInit /\ EmptyDisk
    /\ found = {"camA"} /\ startOk = Cams /\ wedged = {}
    /\ serial = "none" /\ start_server = TRUE
    /\ shut_down_on_exit = FALSE
    /\ trigger_limit \in {-1, TriggerLimit}
    /\ synchronous_timeout_secs = DefaultSyncTimeout
    /\ dbState = "ok"
    /\ SyncDefault /\ NoController /\ CombinedMode /\ SensorsDefault /\ PortsDefault
    /\ trigger_rate \in Rates
    /\ CamInit /\ CamDefault

\* a camera's triggerComplete signal is delivered, any time after TriggerCameras
TimedCompleteEvent == TriggerCompleteAfter(ElapsedUs)

DelayNext ==
    \/ Setup
    \/ TriggerTimerFire
    \/ TimedCompleteEvent
    \/ StartTriggeringRequest
    \/ StopTriggeringRequest

SpecDelay == InitDelay /\ [][DelayNext]_vars

\* The completion logic runs in this step and does not hit the trigger limit.
CompletesBelowLimit ==
    /\ this_images' = this_images + 1
    /\ stops' = stops

\* max(0, floor(1000/trigger_rate - elapsed_ms)), with elapsed_ms =
\* elapsed_us / 1000.
FloorDelay(rate, elapsed_us) ==
    LET f == (1000000 - elapsed_us * rate) \div (1000 * rate)
    IN  IF f < 0 THEN 0 ELSE f

\* C31: at a cycle completion that does not hit the trigger limit the delay
\* for the trigger timer is max(0, floor(1000/trigger_rate - elapsed_ms)), it
\* is not negative and not longer than the period 1000/trigger_rate, and the
\* timer is started only if isTriggering is true.
C31_NextTickDelay ==
    [][CompletesBelowLimit =>
        /\ next_int_time_ms' = FloorDelay(trigger_rate, elapsed_time_us')
        /\ next_int_time_ms' >= 0
        /\ next_int_time_ms' * trigger_rate <= 1000
        /\ isTriggering' => triggerTimer'
        /\ ~isTriggering' => triggerTimer' = triggerTimer]_vars

\* C31 witness: a cycle that took longer than the period has completed with
\* triggering on, the timer is started with no delay.
C31_Witness ==
    /\ this_images = 2 /\ stops = 0
    /\ elapsed_time_us = 200500 /\ trigger_rate = trigger_rate_default
    /\ next_int_time_ms = 0
    /\ isTriggering /\ triggerTimer

----------------------------------------------------------------------------
\* The first message of the board.  ControllerStateChanged is followed from
\* the coordinator whose controller has been started, over every value of
\* the attributes cam_ok and disk_ok that the handler tests.

InitContact ==
    /\ Constructed /\ EmptyDisk
    /\ started = TRUE
    /\ cam_ok \in BOOLEAN /\ disk_ok \in BOOLEAN
    /\ cameras = IF cam_ok /\ disk_ok THEN {"camA"} ELSE {}
    /\ received = [c \in cameras |-> FALSE]
    /\ camAcquiring = [c \in Cams |-> c \in cameras]
    /\ dbFile = "main" /\ db_is_open = TRUE
    /\ controllerThread = "running"
    /\ controllerStarting = TRUE
    /\ found = {"camA"} /\ startOk = Cams /\ wedged = {}
    /\ serial = "none" /\ start_server = FALSE
    /\ shut_down_on_exit \in BOOLEAN
    /\ trigger_limit = -1
    /\ synchronous_timeout_secs = DefaultSyncTimeout
    /\ dbState = "ok"
    /\ SyncDefault /\ CombinedMode /\ SensorsDefault /\ PortsDefault /\ RateDefault
    /\ use_controller = TRUE
    /\ always_trigger_at_start \in BOOLEAN
    /\ hw_triggered_cameras = {}
    /\ CamInit /\ CamDefault

\* shutdownTimer.timeout -> DelayedShutdownHandler: the shutdown signal is
\* sent to the board, which answers with a state message.
DelayedShutdownFire ==
    /\ Running /\ shutdownTimer
    /\ Commit([Cur EXCEPT !.shutdownTimer = FALSE])

ContactNext ==
    \/ ControllerStateEvent
    \/ DelayedShutdownFire
    \/ FirstTrigger
    \/ TriggerCompleteEvent
    \/ AcquisitionStoppedEvent
    \/ StopRequest
    \/ ControllerStoppedEvent
    \/ DelayTimerFire

SpecContact == InitContact /\ [][ContactNext]_vars

\* The first message of the board is handled while the cameras or the disk
\* are not ready.
NotReadyFirstMessage ==
    /\ controllerStarting /\ ~(cam_ok /\ disk_ok)
    /\ stateMsgs' = stateMsgs + 1

C32_ReadyAcknowledged ==
    /\ readySignals <= 1
    /\ (~controllerStarting /\ cam_ok /\ disk_ok) => (readySignals = 1 /\ isAcquiring)

----------------------------------------------------------------------------
\* The window after a failed setup.  shut_down_on_exit is set; the setup
\* finds the disk and the cameras ready or not; the operator stops the
\* application (stopApp -> StopAcquisition(True)) at any time.

InitAbort ==
    /\ CoordInit /\ EmptyDisk
    /\ found = {"camA"} /\ startOk = Cams /\ wedged = {}
    /\ serial \in {"none", "monitoring"}
    /\ start_server \in BOOLEAN
    /\ shut_down_on_exit = TRUE
    /\ trigger_limit = -1
    /\ synchronous_timeout_secs = DefaultSyncTimeout
    /\ dbState = "ok"
    /\ SyncDefault /\ NoController /\ CombinedMode /\ SensorsDefault /\ PortsDefault /\ RateDefault
    /\ CamInit /\ CamDefault

\* ExternalStop: stopApp.emit(True) -> StopAcquisition(exit_app=True)
OperatorStop ==
    /\ Running /\ stops < MaxStops
    /\ Commit(StopAcquisition(Cur, TRUE, FALSE))

AbortNext ==
    \/ Setup
    \/ FirstTrigger
    \/ TriggerCompleteEvent
    \/ AcquisitionStoppedEvent
    \/ OperatorStop
    \/ ShutdownTimerFire
    \/ DelayTimerFire
    \/ StaleTimerFire
    \/ ServerStopped
    \/ SerialDevicesStopped

SpecAbort == InitAbort /\ [][AbortNext]_vars

\* The timers of the event loop fire; the operator may never act, the server
\* and the serial layer may never report.
AbortFair ==
    /\ SpecAbort
    /\ WF_vars(Setup)
    /\ WF_vars(ShutdownTimerFire)
    /\ WF_vars(DelayTimerFire)
    /\ WF_vars(StaleTimerFire)

\* The setup has run and did not find the disk and the cameras ready.
SetupFailed == started /\ ~(cam_ok /\ disk_ok)

\* No teardown has started.
NoTeardown == delayTimer = "off" /\ staleTimers = [poll |-> 0, final |-> 0]

C33_WitnessElapsed ==
    /\ SetupFailed /\ shut_down_on_exit
    /\ stops = 0 /\ quit /\ powerOff

----------------------------------------------------------------------------
\* The trigger scheduler and the stop requests.

\* C34: once StopAcquisition has been called, neither the trigger timer nor
\* the watchdog timer is active again: TriggerCameras, which every timeout of
\* the one or the other calls and which starts the watchdog, is not executed.
C34_NoCycleAfterStop == stops > 0 => ~triggerTimer /\ ~timeoutTimer

\* The step emits the trigger signal: a camera is handed a trigger command.
TriggerCommandEmitted == \E c \in Cams : Len(pending'[c]) > Len(pending[c])

\* C35: a trigger command is emitted only while isTriggering is true, be it
\* by the trigger timer or by the watchdog timer.
C35_TriggerOnlyWhileTriggering == [][TriggerCommandEmitted => isTriggering]_vars

----------------------------------------------------------------------------
\* The number of teardowns.

\* C36: AcqisitionTeardown of the base class runs at most once.
C36_TeardownOnce == teardowns <= 1

----------------------------------------------------------------------------
\* The database and the teardown.  Two serial sensors are monitored, their
\* datagrams are asynchronous; the setup succeeds or fails; the application
\* is stopped at any time and the run is followed to the end of the event
\* loop.

InitClose ==
    /\ CoordInit /\ EmptyDisk
    /\ found = {"camA"} /\ startOk = Cams /\ wedged = {}
    /\ serial = "monitoring" /\ start_server = FALSE
    /\ shut_down_on_exit = FALSE
    /\ trigger_limit = -1
    /\ synchronous_timeout_secs = DefaultSyncTimeout
    /\ dbState \in {"ok", "unusable"}
    /\ still_sync_divider = still_sync_data_divider
    /\ video_sync_divider = video_sync_data_divider
    /\ installed_sensors = Sensors
    /\ NoController /\ CombinedMode /\ PortsDefault /\ RateDefault
    /\ default_is_synchronous = FALSE
    /\ sensorConfig =
            [synchronous |-> {}, asynchronous |-> {},
             installed_sensors |->
                [x \in Sensors |-> InstalledSensor("none", {}, {}, 0)]]
    /\ CamInit /\ CamDefault

\* a datagram of a serial sensor whose thread has not finished
SerialDatagramEvent ==
    /\ serial \in {"monitoring", "stopping"}
    /\ SensorDatagramEvent

CloseNext ==
    \/ Setup
    \/ FirstTrigger
    \/ ImageAcquiredEvent
    \/ TriggerCompleteEvent
    \/ SerialDatagramEvent
    \/ ExitStop
    \/ AcquisitionStoppedEvent
    \/ DelayTimerFire
    \/ SerialDevicesStopped

SpecClose == InitClose /\ [][CloseNext]_vars

\* C37: no write call is issued on the database after AcqisitionTeardown has
\* closed it.
C37_NoWriteAfterClose == closedWrites = 0

----------------------------------------------------------------------------
\* The counters of the saved images.

\* The image numbers for which a trigger command has been issued in this run:
\* startNumber .. lastIssued.
IssuedNumbers == IF lastIssued = 0 THEN 0 ELSE lastIssued - startNumber + 1

\* C38: n_saved_stills and n_saved_frames increase by at most one per image
\* number: neither exceeds the number of image numbers issued, also when the
\* watchdog has issued a cycle again.
C38_SavedPerImageNumber ==
    /\ n_saved_stills <= IssuedNumbers
    /\ n_saved_frames <= IssuedNumbers

----------------------------------------------------------------------------
\* The watchdog of the trigger cycle.

\* One camera, which may fail to start acquiring and then never answers; the
\* server forwards start_triggering and stop_triggering requests and the
\* application is stopped at any time.
InitWatch ==
    /\ CoordInit /\ EmptyDisk
    /\ found = {"camA"}
    /\ startOk \in {Cams, {}}
    /\ wedged = {}
    /\ serial = "none" /\ start_server = TRUE
    /\ shut_down_on_exit = FALSE
    /\ trigger_limit = -1
    /\ synchronous_timeout_secs = DefaultSyncTimeout
    /\ dbState = "ok"
    /\ SyncDefault /\ NoController /\ CombinedMode /\ SensorsDefault /\ PortsDefault /\ RateDefault
    /\ CamInit /\ CamDefault

WatchNext ==
    \/ Setup
    \/ TriggerTimerFire
    \/ TimeoutTimerFire
    \/ TriggerCompleteEvent
    \/ AcquisitionStoppedEvent
    \/ StartTriggeringRequest
    \/ StopTriggeringRequest
    \/ StopRequest

SpecWatch == InitWatch /\ [][WatchNext]_vars

\* The watchdog timer of the event loop fires and the signals of the camera
\* threads that run are delivered; requests may or may not come.
WatchFair ==
    /\ SpecWatch
    /\ WF_vars(TimeoutTimerFire)
    /\ WF_vars(TriggerCompleteEvent)

\* A trigger command is out and some camera has not reported.
Outstanding == lastIssued > 0 /\ ~AllReceived(Cur)

\* C39: before a stop request the timeout timer is active whenever a trigger
\* command is out and some received flag is false; the timer becomes inactive
\* only in a step that runs the completion logic or StopAcquisition; and an
\* open cycle is eventually completed, or the trigger signal is emitted again,
\* or the acquisition is stopped.
C39_WatchdogArmed ==
    /\ [](stops = 0 /\ Outstanding => timeoutTimer)
    /\ [][timeoutTimer /\ ~timeoutTimer' =>
            completed' = completed + 1 \/ stops' = stops + 1]_vars
    /\ \A b \in {0, 1} :
            (stops = 0 /\ Outstanding /\ triggerSignal = b) ~>
                (~Outstanding \/ stops > 0 \/ triggerSignal # b)

\* C39 witness: the watchdog has fired for image 1 and issued it again; the
\* cycle is open with the timer running.
C39_Witness ==
    /\ stops = 0 /\ Outstanding /\ timeoutTimer
    /\ timedOut /\ lastIssued = 1 /\ n_images = 1

====
